---- MODULE Spec2Model ----
(***************************************************************************)
(* EchoTasks: the task store (src/lib/hooks/use-tasks.ts) and the voice    *)
(* command interpreter (src/app/page.tsx, handleRecordingComplete).        *)
(*                                                                         *)
(* Time is counted in seconds since the epoch; a calendar date is a day    *)
(* number since the epoch.  The browser's time zone is a fixed offset.     *)
(* A React callback reads the `tasks` of the render that created it: every *)
(* store operation therefore takes the closure's task list (what it reads) *)
(* next to the store's current list (what its functional updater gets).    *)
(***************************************************************************)
EXTENDS Integers, Sequences, FiniteSets, TLC

\* ---------------------------------------------------------------- bounds
\* Handlers run in one behaviour, and tasks the collection may hold.
MaxSteps == 2
MaxTasks == 4

\* ------------------------------------------------------------- constants
\* Seconds of a day, and of the twelve hours from midnight to noon.
DAY == 24 * 60 * 60
NOON == 12 * 60 * 60

\* priorityOrder.default
DEFAULT_RANK == 4

\* A priority of null, and a dueDate of null.
Null == "null"
NoDate == -1

\* The clock at the start, noon UTC of day 20000, and the offsets from UTC
\* (in seconds) of the browsers explored.
Now0 == (20000 * DAY) + NOON
TZOffsets == {-5 * 60 * 60, 0}

\* ------------------------------------------------------------ sequences
Range(s) == {s[i] : i \in 1..Len(s)}

Ids(ts) == [i \in 1..Len(ts) |-> ts[i].id]

HasId(ts, id) == \E i \in 1..Len(ts) : ts[i].id = id

\* Array.prototype.find on the id: the first task with that id.
Find(ts, id) == ts[CHOOSE i \in 1..Len(ts) : ts[i].id = id /\ \A j \in 1..(i - 1) : ts[j].id # id]

\* ---------------------------------------------------------------- dates
\* Local calendar day of an instant (getFullYear/getMonth/getDate).
LocalDay(t, tz) == (t + tz) \div DAY

\* new Date(); setHours(0,0,0,0): the instant of local midnight of today.
LocalMidnight(day, tz) == (day * DAY) - tz

\* new Date('YYYY-MM-DD'): a date-only string is parsed as UTC midnight.
UtcMidnight(day) == day * DAY

\* new Date('YYYY-MM-DD' + 'T00:00:00'): parsed as local midnight.
ParseLocal(day, tz) == LocalMidnight(day, tz)

\* formatDate(date): the local calendar day of the instant.
formatDate(t, tz) == LocalDay(t, tz)

\* Civil calendar (proleptic Gregorian), for Date.setMonth.
DaysFromCivil(y, m, d) ==
  LET yy == IF m <= 2 THEN y - 1 ELSE y
      era == yy \div 400
      yoe == yy - (era * 400)
      mp == (m + 9) % 12
      doy == (((153 * mp) + 2) \div 5) + (d - 1)
      doe == (yoe * 365) + (yoe \div 4) - (yoe \div 100) + doy
  IN (era * 146097) + doe - 719468

CivilFromDays(z0) ==
  LET z == z0 + 719468
      era == z \div 146097
      doe == z - (era * 146097)
      yoe == (doe - (doe \div 1460) + (doe \div 36524) - (doe \div 146096)) \div 365
      doy == doe - ((365 * yoe) + (yoe \div 4) - (yoe \div 100))
      mp == ((5 * doy) + 2) \div 153
      d == doy - (((153 * mp) + 2) \div 5) + 1
      m == IF mp < 10 THEN mp + 3 ELSE mp - 9
      y == (yoe + (era * 400)) + (IF m <= 2 THEN 1 ELSE 0)
  IN [y |-> y, m |-> m, d |-> d]

\* date.setMonth(date.getMonth() + months): the day of the month is kept and
\* overflows into the following month.
AddMonths(day, months) ==
  LET c == CivilFromDays(day)
      m0 == (c.m - 1) + months
      y1 == c.y + (m0 \div 12)
      m1 == (m0 % 12) + 1
  IN DaysFromCivil(y1, m1, 1) + (c.d - 1)

\* A due-date expression as the intent service or a form hands it over:
\*   kind "absent" (key missing), "null" (explicit null), "iso" (YYYY-MM-DD,
\*   day n), "rel" (a relative phrase, n days from today) or "bad" (text the
\*   date parser cannot parse).
DateExpr(kind, n) == [kind |-> kind, n |-> n]
NoExpr == DateExpr("absent", 0)
NullExpr == DateExpr("null", 0)
IsoExpr(day) == DateExpr("iso", day)

\* typeof x === 'string' && x
IsDateString(e) == e.kind \in {"iso", "rel", "bad"}

\* chrono.parseDate(text, new Date(), { forwardDate: true }) followed by
\* formatDate: the local day the phrase denotes, NoDate when it parses to null.
parseDate(e, t, tz) ==
  CASE e.kind = "iso" -> e.n
    [] e.kind = "rel" -> LocalDay(t, tz) + e.n
    [] OTHER -> NoDate

\* ---------------------------------------------------------------- tasks
Task(id, text, completed, priority, dueDate, location, createdAt, lastUpdated) ==
  [id |-> id, text |-> text, completed |-> completed, priority |-> priority,
   dueDate |-> dueDate, location |-> location, createdAt |-> createdAt,
   lastUpdated |-> lastUpdated]

priorityOrder(p) ==
  CASE p = "high" -> 1
    [] p = "medium" -> 2
    [] p = "low" -> 3
    [] OTHER -> DEFAULT_RANK

SortOptions == {"creationDate", "dueDate", "lastUpdated", "priorityHighToLow", "priorityLowToHigh"}

\* Comparators that place a task without a due date in front of the dated ones.
compareNullFirst(a, b, sortOption) ==
  CASE sortOption = "dueDate" ->
         IF a.dueDate = NoDate /\ b.dueDate = NoDate THEN 0
         ELSE IF a.dueDate = NoDate THEN -1
         ELSE IF b.dueDate = NoDate THEN 1
         ELSE UtcMidnight(a.dueDate) - UtcMidnight(b.dueDate)
    [] sortOption = "priorityHighToLow" -> priorityOrder(a.priority) - priorityOrder(b.priority)
    [] sortOption = "priorityLowToHigh" -> priorityOrder(b.priority) - priorityOrder(a.priority)
    [] sortOption = "lastUpdated" -> b.lastUpdated - a.lastUpdated
    [] OTHER -> b.createdAt - a.createdAt

\* The comparators of sortTasks: a negative result places a before b.
compare(a, b, sortOption) ==
  CASE sortOption = "dueDate" ->
         IF a.dueDate = NoDate /\ b.dueDate = NoDate THEN 0
         ELSE IF a.dueDate = NoDate THEN 1
         ELSE IF b.dueDate = NoDate THEN -1
         ELSE UtcMidnight(a.dueDate) - UtcMidnight(b.dueDate)
    [] sortOption = "priorityHighToLow" -> priorityOrder(a.priority) - priorityOrder(b.priority)
    [] sortOption = "priorityLowToHigh" -> priorityOrder(b.priority) - priorityOrder(a.priority)
    [] sortOption = "lastUpdated" -> b.lastUpdated - a.lastUpdated
    [] OTHER -> b.createdAt - a.createdAt

\* A sort that is not stable: x goes in front of the elements it compares
\* equal to.
RECURSIVE insertBeforeEqual(_, _, _)
insertBeforeEqual(s, x, sortOption) ==
  IF s = << >> THEN << x >>
  ELSE IF compare(s[Len(s)], x, sortOption) < 0 THEN Append(s, x)
  ELSE Append(insertBeforeEqual(SubSeq(s, 1, Len(s) - 1), x, sortOption), s[Len(s)])

\* Array.prototype.sort is stable: x goes behind every element that does not
\* compare greater than it.
RECURSIVE InsertSorted(_, _, _)
InsertSorted(s, x, sortOption) ==
  IF s = << >> THEN << x >>
  ELSE IF compare(s[Len(s)], x, sortOption) <= 0 THEN Append(s, x)
  ELSE Append(InsertSorted(SubSeq(s, 1, Len(s) - 1), x, sortOption), s[Len(s)])

RECURSIVE sortFrom(_, _, _)
sortFrom(ts, n, sortOption) ==
  IF n = 0 THEN << >>
  ELSE InsertSorted(sortFrom(ts, n - 1, sortOption), ts[n], sortOption)

sortTasks(ts, sortOption) == sortFrom(ts, Len(ts), sortOption)

\* -------------------------------------------------------------- strings
\* The texts of tasks, filters and locations are strings; the empty string and
\* null are both falsy and are both written "".  Matching works on the
\* sequence of a string's characters, chars(s).
NoText == ""

UPPER == <<"A","B","C","D","E","F","G","H","I","J","K","L","M","N","O","P","Q","R","S","T","U","V","W","X","Y","Z">>
LOWER == <<"a","b","c","d","e","f","g","h","i","j","k","l","m","n","o","p","q","r","s","t","u","v","w","x","y","z">>
DIGITS == <<"0","1","2","3","4","5","6","7","8","9","_">>

\* String.prototype.toLowerCase
lowerCase == [c \in Range(UPPER) |-> LOWER[CHOOSE k \in 1..Len(UPPER) : UPPER[k] = c]]

toLowerCase(s) == [i \in 1..Len(s) |-> IF s[i] \in DOMAIN lowerCase THEN lowerCase[s[i]] ELSE s[i]]

\* String.prototype.includes
includes(a, b) ==
  \/ Len(b) = 0
  \/ \E i \in 1..(Len(a) - Len(b) + 1) : \A k \in 1..Len(b) : a[i + k - 1] = b[k]

\* \w of a regular expression
WordChars == Range(UPPER) \cup Range(LOWER) \cup Range(DIGITS)

IsWordChar(c) == c \in WordChars

\* new Set(s.split(/\W+/)): the maximal runs of word characters, and the empty
\* string when s is empty or begins or ends with a separator.
splitWords(s) ==
  LET n == Len(s)
      starts == {i \in 1..n : IsWordChar(s[i]) /\ (i = 1 \/ ~IsWordChar(s[i - 1]))}
      endOf(i) == CHOOSE j \in i..n :
                    /\ \A k \in i..j : IsWordChar(s[k])
                    /\ (j = n \/ ~IsWordChar(s[j + 1]))
  IN {SubSeq(s, i, endOf(i)) : i \in starts}
     \cup (IF n = 0 \/ ~IsWordChar(s[1]) \/ ~IsWordChar(s[n]) THEN {NoText} ELSE {})

topicSynonyms ==
  << [key |-> <<"s", "h", "o", "p", "p", "i", "n", "g">>,
      words |-> << <<"b", "u", "y">>,
                 <<"g", "r", "o", "c", "e", "r", "i", "e", "s">>,
                 <<"g", "e", "t">>,
                 <<"s", "h", "o", "p">> >>],
     [key |-> <<"c", "a", "l", "l", "s">>,
      words |-> << <<"c", "a", "l", "l">>,
                 <<"p", "h", "o", "n", "e">>,
                 <<"c", "o", "n", "t", "a", "c", "t">> >>],
     [key |-> <<"p", "r", "e", "s", "e", "n", "t", "a", "t", "i", "o", "n">>,
      words |-> << <<"p", "r", "e", "s", "e", "n", "t", "a", "t", "i", "o", "n">>,
                 <<"s", "l", "i", "d", "e", "s">>,
                 <<"d", "e", "c", "k">> >>],
     [key |-> <<"w", "o", "r", "k", "o", "u", "t">>,
      words |-> << <<"w", "o", "r", "k", "o", "u", "t">>,
                 <<"e", "x", "e", "r", "c", "i", "s", "e">>,
                 <<"g", "y", "m">>,
                 <<"r", "u", "n">>,
                 <<"y", "o", "g", "a">> >>],
     [key |-> <<"c", "l", "e", "a", "n", "i", "n", "g">>,
      words |-> << <<"c", "l", "e", "a", "n">>,
                 <<"t", "i", "d", "y">>,
                 <<"o", "r", "g", "a", "n", "i", "z", "e">> >>],
     [key |-> <<"r", "e", "p", "o", "r", "t">>,
      words |-> << <<"r", "e", "p", "o", "r", "t">>,
                 <<"d", "o", "c", "u", "m", "e", "n", "t">>,
                 <<"s", "u", "m", "m", "a", "r", "y">> >>],
     [key |-> <<"w", "o", "r", "k">>,
      words |-> << <<"w", "o", "r", "k">>,
                 <<"o", "f", "f", "i", "c", "e">>,
                 <<"p", "r", "o", "j", "e", "c", "t">> >>],
     [key |-> <<"s", "u", "b", "m", "i", "t">>,
      words |-> << <<"s", "u", "b", "m", "i", "t">>,
                 <<"s", "u", "b", "m", "i", "t", "t", "i", "n", "g">> >>] >>

T_PayRent == "Pay rent"
T_BuyMilk == "Buy milk"
T_BuyEggs == "Buy eggs"
T_CallMom == "Call mom"
T_Milk == "milk"
T_Rent == "rent"
T_Buy == "buy"
T_Office == "Office"
T_Eggs == "eggs"
T_SubmitReport == "submit the report"
T_Submitting == "submitting the report"
T_WalkDog == "walk the dog"

\* The characters of the strings that occur.
chars(s) ==
  CASE s = T_PayRent -> <<"P", "a", "y", " ", "r", "e", "n", "t">>
    [] s = T_BuyMilk -> <<"B", "u", "y", " ", "m", "i", "l", "k">>
    [] s = T_BuyEggs -> <<"B", "u", "y", " ", "e", "g", "g", "s">>
    [] s = T_CallMom -> <<"C", "a", "l", "l", " ", "m", "o", "m">>
    [] s = T_Milk -> <<"m", "i", "l", "k">>
    [] s = T_Rent -> <<"r", "e", "n", "t">>
    [] s = T_Buy -> <<"b", "u", "y">>
    [] s = T_Office -> <<"O", "f", "f", "i", "c", "e">>
    [] s = T_Eggs -> <<"e", "g", "g", "s">>
    [] s = T_SubmitReport -> <<"s", "u", "b", "m", "i", "t", " ", "t", "h", "e", " ",
                               "r", "e", "p", "o", "r", "t">>
    [] s = T_Submitting -> <<"s", "u", "b", "m", "i", "t", "t", "i", "n", "g", " ", "t", "h", "e", " ",
                             "r", "e", "p", "o", "r", "t">>
    [] s = T_WalkDog -> <<"w", "a", "l", "k", " ", "t", "h", "e", " ", "d", "o", "g">>
    [] OTHER -> << >>

Texts == {NoText, T_PayRent, T_BuyMilk, T_BuyEggs, T_CallMom, T_Milk, T_Rent, T_Buy, T_Office, T_Eggs,
          T_SubmitReport, T_Submitting, T_WalkDog}

\* s.toLowerCase(), as characters
lower == [s \in Texts |-> toLowerCase(chars(s))]

\* a.toLowerCase().includes(b.toLowerCase())
lowerIncludes == [a \in Texts |-> [b \in Texts |-> includes(lower[a], lower[b])]]

\* ---------------------------------------------------- priority detection
URGENT_KEYWORDS ==
  { <<"u", "r", "g", "e", "n", "t">>,
    <<"a", "s", "a", "p">>,
    <<"i", "m", "m", "e", "d", "i", "a", "t", "e", "l", "y">>,
    <<"r", "i", "g", "h", "t", " ", "a", "w", "a", "y">>,
    <<"r", "i", "g", "h", "t", " ", "n", "o", "w">>,
    <<"a", "s", " ", "s", "o", "o", "n", " ", "a", "s", " ", "p", "o", "s", "s", "i", "b", "l", "e">> }

IMPACT_KEYWORDS ==
  { <<"t", "a", "x">>,
    <<"r", "e", "n", "t">>,
    <<"b", "i", "l", "l">>,
    <<"s", "u", "b", "m", "i", "t">>,
    <<"a", "p", "p", "l", "i", "c", "a", "t", "i", "o", "n">>,
    <<"d", "e", "a", "d", "l", "i", "n", "e">>,
    <<"p", "a", "y", "m", "e", "n", "t">>,
    <<"f", "i", "n", "e">>,
    <<"d", "u", "e">> }

LOCATION_KEYWORDS ==
  { <<"n", "e", "a", "r", "b", "y">>,
    <<"n", "e", "a", "r">>,
    <<"s", "u", "p", "e", "r", "m", "a", "r", "k", "e", "t">>,
    <<"m", "a", "r", "k", "e", "t">>,
    <<"s", "t", "o", "r", "e">>,
    <<"g", "r", "o", "c", "e", "r", "y">>,
    <<"g", "r", "o", "c", "e", "r", "i", "e", "s">> }

\* containsKeyword(text, arr): a keyword is a word of the text or occurs in it.
containsKeyword(text, arr) ==
  \E k \in arr : k \in splitWords(text) \/ includes(text, k)

\* String.prototype.trim, for texts whose only white space is the blank.
trim(s) ==
  LET inner == {i \in 1..Len(s) : s[i] # " "}
  IN IF inner = {} THEN << >>
     ELSE SubSeq(s, CHOOSE i \in inner : \A j \in inner : i <= j,
                    CHOOSE i \in inner : \A j \in inner : i >= j)

\* No short circuit: the urgent keyword adds 90 to the sum of the other signals.
detectBySum(raw, parsed) ==
  LET text == toLowerCase(trim(raw))
      hrs2 == parsed.hrs2
      dateScore == IF ~parsed.found THEN 0
                   ELSE IF hrs2 <= 8 THEN 40 ELSE IF hrs2 <= 48 THEN 30
                   ELSE IF hrs2 <= 144 THEN 15 ELSE 5
      sum == (IF containsKeyword(text, URGENT_KEYWORDS) THEN 90 ELSE 0) + dateScore
             + (IF containsKeyword(text, IMPACT_KEYWORDS) THEN 15 ELSE 0)
             + (IF containsKeyword(text, LOCATION_KEYWORDS) THEN 10 ELSE 0)
      score == IF sum < 0 THEN 0 ELSE sum
  IN [priority |-> IF score >= 70 THEN "high" ELSE IF score >= 30 THEN "medium"
                   ELSE IF score >= 5 THEN "low" ELSE "none",
      score |-> score]

\* No floor at 0: a recurrence marker alone gives a negative score.
detectWithoutFloor(raw, parsed) ==
  LET text == toLowerCase(trim(raw))
      hrs2 == parsed.hrs2
      dateScore == IF ~parsed.found THEN 0
                   ELSE IF hrs2 <= 8 THEN 40 ELSE IF hrs2 <= 48 THEN 30
                   ELSE IF hrs2 <= 144 THEN 15 ELSE 5
      isRoutine == \E w \in {<<"e", "v", "e", "r", "y">>, <<"d", "a", "i", "l", "y">>, <<"w", "e", "e", "k", "l", "y">>} : includes(text, w)
      score == dateScore + (IF containsKeyword(text, IMPACT_KEYWORDS) THEN 15 ELSE 0)
               + (IF containsKeyword(text, LOCATION_KEYWORDS) THEN 10 ELSE 0)
               + (IF isRoutine THEN -10 ELSE 0)
  IN IF containsKeyword(text, URGENT_KEYWORDS) THEN [priority |-> "high", score |-> 90]
     ELSE [priority |-> IF score >= 70 THEN "high" ELSE IF score >= 30 THEN "medium"
                        ELSE IF score >= 5 THEN "low" ELSE "none",
           score |-> score]

\* The impact keyword weighs 30: a near date with an impact keyword reaches 70.
detectHeavyImpact(raw, parsed) ==
  LET text == toLowerCase(trim(raw))
      hrs2 == parsed.hrs2
      dateScore == IF ~parsed.found THEN 0
                   ELSE IF hrs2 <= 8 THEN 40 ELSE IF hrs2 <= 48 THEN 30
                   ELSE IF hrs2 <= 144 THEN 15 ELSE 5
      isRoutine == \E w \in {<<"e", "v", "e", "r", "y">>, <<"d", "a", "i", "l", "y">>, <<"w", "e", "e", "k", "l", "y">>} : includes(text, w)
      sum == dateScore + (IF containsKeyword(text, IMPACT_KEYWORDS) THEN 30 ELSE 0)
             + (IF containsKeyword(text, LOCATION_KEYWORDS) THEN 10 ELSE 0)
             + (IF isRoutine THEN -10 ELSE 0)
      score == IF sum < 0 THEN 0 ELSE sum
  IN IF containsKeyword(text, URGENT_KEYWORDS) THEN [priority |-> "high", score |-> 90]
     ELSE [priority |-> IF score >= 70 THEN "high" ELSE IF score >= 30 THEN "medium"
                        ELSE IF score >= 5 THEN "low" ELSE "none",
           score |-> score]

\* detectPriorityFast(raw, now): [priority, score].  raw is the text as
\* characters; parsed is what chrono.parse finds in it, [found, hrs2], hrs2
\* being the half hours from now to the start of the first date found.
detectPriorityFast(raw, parsed) ==
  LET \* raw.trim().toLowerCase()
      text == toLowerCase(trim(raw))
      hrs2 == parsed.hrs2
      dateScore == IF ~parsed.found THEN 0
                   ELSE IF hrs2 <= 1 THEN 40
                   ELSE IF hrs2 <= 8 THEN 40
                   ELSE IF hrs2 <= 48 THEN 30
                   ELSE IF hrs2 <= 144 THEN 15
                   ELSE 5
      impact == IF containsKeyword(text, IMPACT_KEYWORDS) THEN 15 ELSE 0
      loc == IF containsKeyword(text, LOCATION_KEYWORDS) THEN 10 ELSE 0
      isRoutine == \E w \in {<<"e", "v", "e", "r", "y">>, <<"d", "a", "i", "l", "y">>, <<"w", "e", "e", "k", "l", "y">>} : includes(text, w)
      routinePenalty == IF isRoutine THEN -10 ELSE 0
      sum == dateScore + impact + loc + routinePenalty
      score == IF sum < 0 THEN 0 ELSE sum
  IN IF containsKeyword(text, URGENT_KEYWORDS) THEN [priority |-> "high", score |-> 90]
     ELSE IF score >= 70 THEN [priority |-> "high", score |-> score]
     ELSE IF score >= 30 THEN [priority |-> "medium", score |-> score]
     ELSE IF score >= 5 THEN [priority |-> "low", score |-> score]
     ELSE [priority |-> "none", score |-> score]

\* ------------------------------------------------------------- resolver
\* lowerTaskText.includes(lowerTopic) || lowerTopic.includes(lowerTaskText)
phraseMatch == [text \in Texts |-> [topic \in Texts |->
  lowerIncludes[text][topic] \/ lowerIncludes[topic][text]]]

\* new Set(lowerTopic.split(/\W+/).filter(w => w.length > 2))
topicWords == [topic \in Texts |-> {w \in splitWords(lower[topic]) : Len(w) > 2}]

\* synonymSet: the words of the first key of topicSynonyms that lists the topic
\* or contains it, else the topic alone.
synonymSet == [topic \in Texts |->
  LET keys == {k \in 1..Len(topicSynonyms) :
                 \/ lower[topic] \in Range(topicSynonyms[k].words)
                 \/ includes(topicSynonyms[k].key, lower[topic])}
  IN IF keys = {} THEN {lower[topic]}
     ELSE Range(topicSynonyms[CHOOSE k \in keys : \A j \in keys : k <= j].words)]

\* The filter of phase 2: a word of the task is a synonym, or a word of the
\* topic occurs in the task's text.
keywordMatch == [text \in Texts |-> [topic \in Texts |->
  \/ splitWords(lower[text]) \cap synonymSet[topic] # {}
  \/ \E w \in topicWords[topic] : includes(lower[text], w)]]

\* getFuzzyMatchingTaskIds(allTasks, topic): the ids of the matching tasks, in
\* the order of allTasks.
getFuzzyMatchingTaskIds(allTasks, topic) ==
  IF topic = NoText THEN << >>
  ELSE
    LET phraseMatches == SelectSeq(allTasks, LAMBDA task : phraseMatch[task.text][topic])
    IN IF Len(phraseMatches) > 0 THEN Ids(phraseMatches)
       ELSE Ids(SelectSeq(allTasks, LAMBDA task : keywordMatch[task.text][topic]))

\* A displayed list that is the collection itself, whatever the setting.
storeOrder(ts, moveCompleted) == ts

\* sortedTasks: the displayed list.
sortedTasks(ts, moveCompleted) ==
  IF moveCompleted
  THEN SelectSeq(ts, LAMBDA t : ~t.completed) \o SelectSeq(ts, LAMBDA t : t.completed)
  ELSE ts

\* A position token: [k |-> "last" | "second last" | "odd" | "even" | "all" |
\* "num" | "range", a, b]; a is the number, or a and b the range's start and end.
Pos(k, a, b) == [k |-> k, a |-> a, b |-> b]

\* Position tokens with a number that must lie below the list's length.
positionsBelowCount(pos, taskCount) ==
  CASE pos.k = "last" -> IF taskCount > 0 THEN {taskCount - 1} ELSE {}
    [] pos.k = "second last" -> IF taskCount > 1 THEN {taskCount - 2} ELSE {}
    [] pos.k = "odd" -> {i \in 0..(taskCount - 1) : i % 2 = 0}
    [] pos.k = "even" -> {i \in 0..(taskCount - 1) : i % 2 = 1}
    [] pos.k = "all" -> 0..(taskCount - 1)
    [] pos.k = "num" -> IF pos.a > 0 /\ pos.a < taskCount THEN {pos.a - 1} ELSE {}
    [] pos.k = "range" ->
         LET start == IF pos.a < 0 THEN taskCount + pos.a ELSE pos.a - 1
             end == IF pos.b < 0 THEN taskCount + pos.b ELSE pos.b - 1
         IN {i \in start..end : i >= 0 /\ i < taskCount}
    [] OTHER -> {}

\* Position tokens whose range bounds all count from the front.
positionsFromFront(pos, taskCount) ==
  CASE pos.k = "last" -> IF taskCount > 0 THEN {taskCount - 1} ELSE {}
    [] pos.k = "second last" -> IF taskCount > 1 THEN {taskCount - 2} ELSE {}
    [] pos.k = "odd" -> {i \in 0..(taskCount - 1) : i % 2 = 0}
    [] pos.k = "even" -> {i \in 0..(taskCount - 1) : i % 2 = 1}
    [] pos.k = "all" -> 0..(taskCount - 1)
    [] pos.k = "num" -> IF pos.a > 0 /\ pos.a <= taskCount THEN {pos.a - 1} ELSE {}
    [] pos.k = "range" -> {i \in (pos.a - 1)..(pos.b - 1) : i >= 0 /\ i < taskCount}
    [] OTHER -> {}

\* The indices (0-based) one position token adds.
positionIndices(pos, taskCount) ==
  CASE pos.k = "last" -> IF taskCount > 0 THEN {taskCount - 1} ELSE {}
    [] pos.k = "second last" -> IF taskCount > 1 THEN {taskCount - 2} ELSE {}
    [] pos.k = "odd" -> {i \in 0..(taskCount - 1) : i % 2 = 0}
    [] pos.k = "even" -> {i \in 0..(taskCount - 1) : i % 2 = 1}
    [] pos.k = "all" -> 0..(taskCount - 1)
    [] pos.k = "num" -> IF pos.a > 0 /\ pos.a <= taskCount THEN {pos.a - 1} ELSE {}
    [] pos.k = "range" ->
         LET start == IF pos.a < 0 THEN taskCount + pos.a ELSE pos.a - 1
             end == IF pos.b < 0 THEN taskCount + pos.b ELSE pos.b - 1
         IN {i \in start..end : i >= 0 /\ i < taskCount}
    [] OTHER -> {}

\* Array.from(indices): a Set iterates in insertion order; the tokens are read
\* in order and each adds its indices in ascending order.
RECURSIVE insertionOrder(_, _, _)
insertionOrder(positions, n, taskCount) ==
  IF n = 0 THEN << >>
  ELSE
    LET before == insertionOrder(positions, n - 1, taskCount)
        fresh == positionIndices(positions[n], taskCount) \ Range(before)
        RECURSIVE ascending(_)
        ascending(S) ==
          IF S = {} THEN << >>
          ELSE LET m == CHOOSE x \in S : \A y \in S : x <= y
               IN << m >> \o ascending(S \ {m})
    IN before \o ascending(fresh)

\* A due-date query of a filter: [kind |-> "rel" | "bad", n, end]; "rel" starts
\* n days from today and ends `end` days from today, end = -1 when the parser
\* reports no end.  The end then is start + 24h - 1ms, taken before the start is
\* moved to 00:00, and moved to 23:59:59.999 of its own day: the day after the
\* start, the parser placing a date without a time at noon.
DateQuery(kind, n, end) == [kind |-> kind, n |-> n, end |-> end]

\* A resolver whose positions count within the tasks the status filter left.
positionsAfterStatus(filter, ts, moveCompleted, t, tz) ==
  LET baseTasks ==
        IF "status" \in DOMAIN filter /\ filter.status # "overdue"
        THEN SelectSeq(ts, LAMBDA x : x.completed = (filter.status = "completed"))
        ELSE ts
      posTasks == sortedTasks(baseTasks, moveCompleted)
      indices == insertionOrder(filter.positions, Len(filter.positions), Len(posTasks))
  IN [i \in 1..Len(indices) |-> posTasks[indices[i] + 1].id]

\* getFilteredTaskIds(filter): ts is the closure's `tasks`.  Each attribute
\* filter narrows baseTasks, the list the filters before it left.
getFilteredTaskIds(filter, ts, moveCompleted, t, tz) ==
  LET today == LocalDay(t, tz)
      Has(f) == f \in DOMAIN filter
      byText(baseTasks) ==
        IF Has("text") /\ filter.text # NoText
        THEN LET fuzzyIds == Range(getFuzzyMatchingTaskIds(baseTasks, filter.text))
             IN SelectSeq(baseTasks, LAMBDA x : x.id \in fuzzyIds \/ lowerIncludes[x.text][filter.text])
        ELSE baseTasks
      byDate(baseTasks) ==
        IF Has("dueDate") /\ filter.dueDate.kind = "rel"
        THEN LET startDay == today + filter.dueDate.n
                 endDay == IF filter.dueDate.end >= 0 THEN today + filter.dueDate.end
                           ELSE LocalDay(LocalMidnight(startDay, tz) + NOON + DAY - 1, tz)
             IN SelectSeq(baseTasks, LAMBDA x :
                  x.dueDate # NoDate /\ startDay <= x.dueDate /\ x.dueDate <= endDay)
        ELSE baseTasks
      byStatus(baseTasks) ==
        IF Has("status")
        THEN IF filter.status = "overdue"
             THEN SelectSeq(baseTasks, LAMBDA x :
                    /\ x.dueDate # NoDate
                    /\ UtcMidnight(x.dueDate) < LocalMidnight(today, tz)
                    /\ ~x.completed)
             ELSE SelectSeq(baseTasks, LAMBDA x : x.completed = (filter.status = "completed"))
        ELSE baseTasks
      byPriority(baseTasks) ==
        IF Has("priority") /\ Len(filter.priority) > 0
        THEN SelectSeq(baseTasks, LAMBDA x : x.priority # Null /\ x.priority \in Range(filter.priority))
        ELSE baseTasks
      byLocation(baseTasks) ==
        IF Has("location") /\ filter.location # NoText
        THEN SelectSeq(baseTasks, LAMBDA x :
               x.location # NoText /\ lowerIncludes[x.location][filter.location])
        ELSE baseTasks
      byPositions(posTasks) ==
        LET indices == insertionOrder(filter.positions, Len(filter.positions), Len(posTasks))
        IN [i \in 1..Len(indices) |-> posTasks[indices[i] + 1].id]
      Result(baseTasks) ==
        IF Has("positions") /\ Len(filter.positions) > 0
        THEN byPositions(sortedTasks(ts, moveCompleted))
        ELSE Ids(baseTasks)
  IN Result(byLocation(byPriority(byStatus(byDate(byText(ts))))))

\* ---------------------------------------------------------------- store
\* The hook's state: [tasks, lastAction].  An undo entry is
\* [type, id, tasks]: `add` carries the id, `delete` (task) and `update`
\* (originalTask) one task, `delete-many` (tasks) and `complete-many`
\* (originalTasks) a list of tasks.
Undo(type, id, ts) == [type |-> type, id |-> id, tasks |-> ts]
NoUndo == Undo("none", 0, << >>)

Store(ts, undo) == [tasks |-> ts, lastAction |-> undo]

\* What a callback closes over: the `tasks` and `sortOption` of its render.
Closure(ts, sortOption) == [tasks |-> ts, sortOption |-> sortOption]

\* An argument handed to a parameter declared `id: string`: a string, or the
\* array a caller passes instead.
IdArg(id) == [kind |-> "string", id |-> id, ids |-> << id >>]
ArrayArg(ids) == [kind |-> "array", id |-> 0, ids |-> ids]

\* t.id === id: an array is never strictly equal to a string.
strictEquals(taskId, arg) == arg.kind = "string" /\ arg.id = taskId

addTask(st, c, taskDetails, id, t) ==
  LET newTask == Task(id, taskDetails.text, FALSE, taskDetails.priority,
                      taskDetails.dueDate, taskDetails.location, t, t)
  IN Store(sortTasks(<< newTask >> \o st.tasks, c.sortOption), Undo("add", id, << >>))

toggleTask(st, c, id, t) ==
  IF ~HasId(c.tasks, id) THEN st
  ELSE Store([i \in 1..Len(st.tasks) |->
                IF st.tasks[i].id = id
                THEN [st.tasks[i] EXCEPT !.completed = ~st.tasks[i].completed, !.lastUpdated = t]
                ELSE st.tasks[i]],
             Undo("update", 0, << Find(c.tasks, id) >>))

\* A deleteTask that records the deletion and leaves the task in place.
deleteRecordsOnly(st, c, arg) ==
  LET found == SelectSeq(c.tasks, LAMBDA x : strictEquals(x.id, arg))
  IN IF Len(found) = 0 THEN st
     ELSE Store(st.tasks, Undo("delete", 0, << found[1] >>))

deleteTask(st, c, arg) ==
  LET found == SelectSeq(c.tasks, LAMBDA x : strictEquals(x.id, arg))
  IN IF Len(found) = 0 THEN st
     ELSE Store(SelectSeq(st.tasks, LAMBDA x : ~strictEquals(x.id, arg)),
                Undo("delete", 0, << found[1] >>))

\* The tasks deleteOverdueTasks finds overdue among the closure's.
overdueTasks(c, t, tz) ==
  LET today == LocalMidnight(LocalDay(t, tz), tz)
  IN SelectSeq(c.tasks, LAMBDA x : x.dueDate # NoDate /\ ParseLocal(x.dueDate, tz) < today)

\* deleteOverdueTasks returns [store, count]: the store it leaves and the
\* number it returns.
deleteOverdueTasks(st, c, t, tz) ==
  LET overdue == overdueTasks(c, t, tz)
  IN IF Len(overdue) = 0 THEN [store |-> st, count |-> 0]
     ELSE [store |-> Store(SelectSeq(st.tasks, LAMBDA x : ~HasId(overdue, x.id)),
                           Undo("delete-many", 0, overdue)),
           count |-> Len(overdue)]

deleteAllTasks(st, c) ==
  IF Len(c.tasks) = 0 THEN st
  ELSE Store(<< >>, Undo("delete-many", 0, c.tasks))

\* { ...task, ...newUpdates, lastUpdated: now } with the due date resolved:
\* a due-date string goes through the date parser and keeps the previous date
\* when it does not parse; null clears the date.  Keys of the updates that are
\* no field of a task (dueDateShift) are not carried into the model's task.
mergeUpdates(task, updates, t, tz) ==
  [f \in DOMAIN task |->
     IF f = "lastUpdated" THEN t
     ELSE IF f \notin DOMAIN updates THEN task[f]
     ELSE IF f # "dueDate" THEN updates[f]
     ELSE IF IsDateString(updates.dueDate)
          THEN LET parsedDate == parseDate(updates.dueDate, t, tz)
               IN IF parsedDate # NoDate THEN parsedDate ELSE task.dueDate
          ELSE NoDate]

updateTask(st, c, id, updates, t, tz) ==
  IF ~HasId(c.tasks, id) THEN st
  ELSE Store(sortTasks([i \in 1..Len(st.tasks) |->
                          IF st.tasks[i].id = id
                          THEN mergeUpdates(st.tasks[i], updates, t, tz)
                          ELSE st.tasks[i]],
                       c.sortOption),
             Undo("update", 0, << Find(c.tasks, id) >>))

completeTasks(st, c, ids, completed, t) ==
  LET originalTasks == SelectSeq(c.tasks, LAMBDA x : x.id \in Range(ids))
  IN IF Len(originalTasks) = 0 THEN st
     ELSE Store([i \in 1..Len(st.tasks) |->
                   IF st.tasks[i].id \in Range(ids)
                   THEN [st.tasks[i] EXCEPT !.completed = completed, !.lastUpdated = t]
                   ELSE st.tasks[i]],
                Undo("complete-many", 0, originalTasks))

\* Faulty variant of restoreFrom: only the first snapshot is put back.
restoreFirstOnly(originals, task) ==
  IF Len(originals) > 0 /\ originals[1].id = task.id THEN originals[1] ELSE task

\* originalMap.get(t.id) || t: a Map built from pairs keeps the last pair of a key.
restoreFrom(originals, task) ==
  IF HasId(originals, task.id)
  THEN originals[CHOOSE i \in 1..Len(originals) :
                   originals[i].id = task.id /\ \A j \in (i + 1)..Len(originals) : originals[j].id # task.id]
  ELSE task

\* revertLastAction: c is the closure of the render the Undo button belongs to;
\* its lastAction is the store's.
revertLastAction(st, c) ==
  LET la == st.lastAction
  IN CASE la.type = "none" -> st
       [] la.type = "add" ->
            Store(SelectSeq(st.tasks, LAMBDA x : x.id # la.id), NoUndo)
       [] la.type = "delete" ->
            Store(sortTasks(st.tasks \o la.tasks, c.sortOption), NoUndo)
       [] la.type = "update" ->
            Store(sortTasks([i \in 1..Len(c.tasks) |->
                               IF c.tasks[i].id = la.tasks[1].id THEN la.tasks[1] ELSE c.tasks[i]],
                            c.sortOption),
                  NoUndo)
       [] la.type = "complete-many" ->
            Store([i \in 1..Len(st.tasks) |-> restoreFrom(la.tasks, st.tasks[i])], NoUndo)
       [] OTHER ->
            Store(sortTasks(st.tasks \o la.tasks, c.sortOption), NoUndo)

\* addTasks and updateTasks are called by page.tsx and are not among the
\* functions use-tasks.ts defines; they are written from the description of
\* the store's create and updateMany.  addTasks creates the tasks one after
\* the other as addTask does; ids[i] is the id of the i-th new task.
RECURSIVE addTasks(_, _, _, _, _)
addTasks(st, c, list, ids, t) ==
  IF Len(list) = 0 THEN st
  ELSE addTasks(addTask(st, c, list[1], ids[1], t), c, Tail(list), Tail(ids), t)

\* The updates of the list entries for one task, applied in list order.
RECURSIVE applyUpdates(_, _, _, _)
applyUpdates(task, list, t, tz) ==
  IF Len(list) = 0 THEN task
  ELSE applyUpdates(IF list[1].id = task.id THEN mergeUpdates(task, list[1].updates, t, tz) ELSE task,
                    Tail(list), t, tz)

\* updateTasks applies every entry as an update of its own and records the
\* pre-mutation snapshots of the tasks touched once, as a complete-many entry;
\* ids absent from the collection are passed over.
updateTasks(st, c, list, t, tz) ==
  LET ids == {list[i].id : i \in 1..Len(list)}
      snapshots == SelectSeq(st.tasks, LAMBDA x : x.id \in ids)
  IN IF Len(snapshots) = 0 THEN st
     ELSE Store(sortTasks([i \in 1..Len(st.tasks) |-> applyUpdates(st.tasks[i], list, t, tz)],
                          c.sortOption),
                Undo("complete-many", 0, snapshots))

\* -------------------------------------------------------------- dialogs
\* confirmationState: onConfirm is kept as the intent that built it, the ids
\* and updates it captured and the closure of the render it was built in.
Confirmation(isOpen, onConfirm, ids, updates, c) ==
  [isOpen |-> isOpen, onConfirm |-> onConfirm, ids |-> ids, updates |-> updates, closure |-> c]
NoConfirmation == Confirmation(FALSE, "null", << >>, << >>, Closure(<< >>, "creationDate"))

\* updateState and completionState: the tasks presented and the updates.
Selection(isOpen, ts, updates) == [isOpen |-> isOpen, tasks |-> ts, updates |-> updates]
NoSelection == Selection(FALSE, << >>, << >>)

\* --------------------------------------------------------- observations
\* A call of a store function: its name, the kind of its id argument, the ids
\* and the updates handed to it.
CallRec(fn, kind, ids, updates) == [fn |-> fn, kind |-> kind, ids |-> ids, updates |-> updates]
NoCall == CallRec("none", "none", << >>, << >>)

\* What one action (n-th of the list) did: the ids it resolved, the branch it
\* took, whether the task collection changed while it was interpreted, and
\* the collection as it was (at) when its interpretation began.
Entry(intent, ids, route) ==
  [n |-> 0, intent |-> intent, ids |-> ids, route |-> route, changed |-> FALSE, at |-> << >>]

\* What the handler has done so far in one run:
\*   st, conf, upd, comp  the store and the three dialogs' states
\*   pre                  the store before the last store call
\*   toAdd                tasksToAdd
\*   calls                the store calls, in order
\*   log                  the entries of the actions interpreted
Called(acc, call, after) ==
  [acc EXCEPT !.pre = acc.st, !.st = after, !.calls = Append(@, call)]

Logged(acc, entry) == [acc EXCEPT !.log = Append(@, entry)]

\* ------------------------------------------------------- orchestrator
\* performUpdate(targetIds), built for one UPDATE_TASK action in closure c.
performUpdate(st, c, updates, targetIds, t, tz) ==
  LET finalUpdates ==
        IF "dueDate" \in DOMAIN updates /\ IsDateString(updates.dueDate)
        THEN LET parsedDate == parseDate(updates.dueDate, t, tz)
             IN [updates EXCEPT !.dueDate = IF parsedDate # NoDate THEN IsoExpr(parsedDate) ELSE NullExpr]
        ELSE updates
      Field(shift, f) == IF f \in DOMAIN shift THEN shift[f] ELSE 0
      Shifted(task) ==
        LET shift == finalUpdates.dueDateShift
            currentDueDate == IF task.dueDate # NoDate THEN ParseLocal(task.dueDate, tz) ELSE t
            moved == formatDate(currentDueDate, tz) + Field(shift, "days") + (Field(shift, "weeks") * 7)
        IN AddMonths(moved, Field(shift, "months"))
      WithDate(task) ==
        [f \in DOMAIN finalUpdates \cup {"dueDate"} |->
           IF f = "dueDate" THEN IsoExpr(Shifted(task)) ELSE finalUpdates[f]]
      tasksToShift == SelectSeq(c.tasks, LAMBDA x : x.id \in Range(targetIds))
  IN IF "dueDateShift" \in DOMAIN finalUpdates
     THEN updateTasks(st, c,
                      [i \in 1..Len(tasksToShift) |->
                         [id |-> tasksToShift[i].id, updates |-> WithDate(tasksToShift[i])]],
                      t, tz)
     ELSE updateTasks(st, c,
                      [i \in 1..Len(targetIds) |-> [id |-> targetIds[i], updates |-> finalUpdates]],
                      t, tz)

\* tasks.filter(t => !t.completed)
Incomplete(ts) == SelectSeq(ts, LAMBDA x : ~x.completed)

\* One descriptor of an ADD_TASK action.
addOne(acc, taskInfo, env) ==
  LET c == env.closure
      Truthy(f) == f \in DOMAIN taskInfo /\
                   (CASE f = "dueDate" -> IsDateString(taskInfo.dueDate)
                      [] f = "priority" -> taskInfo.priority # Null
                      [] OTHER -> taskInfo[f] # NoText)
      isSimpleAdd == ~Truthy("dueDate") /\ ~Truthy("priority") /\ ~Truthy("location")
      updates == [f \in (DOMAIN taskInfo \cap {"priority", "dueDate", "location"}) |-> taskInfo[f]]
      taskDueDate ==
        IF Truthy("dueDate") THEN parseDate(taskInfo.dueDate, env.now, env.tz)
        ELSE parseDate(env.transcript.dueDate, env.now, env.tz)
      defaultPriority == IF env.transcript.priority = "none" THEN Null ELSE env.transcript.priority
      queued ==
        [text |-> taskInfo.text,
         priority |-> IF Truthy("priority") THEN taskInfo.priority ELSE defaultPriority,
         dueDate |-> taskDueDate,
         location |-> IF Truthy("location") THEN taskInfo.location ELSE NoText]
      \* similarTaskIds and fuzzyIdsForUpdate are the same call of
      \* getFuzzyMatchingTaskIds, the first made for a simple add only.
      With(fuzzyIdsForUpdate) ==
        IF isSimpleAdd /\ Len(fuzzyIdsForUpdate) > 0
        THEN Logged(acc, Entry("ADD_TASK", fuzzyIdsForUpdate, "duplicate"))
        ELSE IF Len(fuzzyIdsForUpdate) > 0 /\ ~isSimpleAdd
        THEN IF DOMAIN updates # {}
             THEN Logged(Called(acc, CallRec("updateTask", "string", << fuzzyIdsForUpdate[1] >>, updates),
                                updateTask(acc.st, c, fuzzyIdsForUpdate[1], updates, env.now, env.tz)),
                         Entry("ADD_TASK", << fuzzyIdsForUpdate[1] >>, "updated"))
             ELSE acc
        ELSE Logged([acc EXCEPT !.toAdd = Append(@, queued)], Entry("ADD_TASK", << >>, "queued"))
  IN With(getFuzzyMatchingTaskIds(Incomplete(c.tasks), taskInfo.text))

RECURSIVE addEach(_, _, _)
addEach(acc, infos, env) ==
  IF Len(infos) = 0 THEN acc ELSE addEach(addOne(acc, infos[1], env), Tail(infos), env)

\* case 'ADD_TASK'
addTaskAction(acc, action, env) ==
  IF "tasks" \notin DOMAIN action \/ Len(action.tasks) = 0
  THEN Logged(acc, Entry("ADD_TASK", << >>, "unknown"))
  ELSE addEach(acc, action.tasks, env)

\* getFilteredTaskIds(action.filter) in the handler's closure.
resolve(action, env) ==
  IF "filter" \in DOMAIN action
  THEN getFilteredTaskIds(action.filter, env.closure.tasks, env.moveCompleted, env.now, env.tz)
  ELSE << >>

\* case 'DELETE_TASK'
deleteTaskAction(acc, action, env) ==
  LET c == env.closure
      With(idsToDelete) ==
        LET tasksToDelete == SelectSeq(c.tasks, LAMBDA x : x.id \in Range(idsToDelete))
            isSingleHighPriority ==
              Len(idsToDelete) = 1 /\ Len(tasksToDelete) > 0 /\ tasksToDelete[1].priority = "high"
        IN IF Len(idsToDelete) = 0 THEN Logged(acc, Entry("DELETE_TASK", << >>, "notify"))
           ELSE IF Len(idsToDelete) > 1 \/ isSingleHighPriority
           THEN Logged([acc EXCEPT !.conf = Confirmation(TRUE, "DELETE_TASK", idsToDelete, << >>, c)],
                       Entry("DELETE_TASK", idsToDelete, "confirm"))
           ELSE Logged(Called(acc, CallRec("deleteTask", "array", idsToDelete, << >>),
                              deleteTask(acc.st, c, ArrayArg(idsToDelete))),
                       Entry("DELETE_TASK", idsToDelete, "immediate"))
  IN With(resolve(action, env))

\* The tasks the DELETE_OVERDUE case counts: new Date(t.dueDate) is UTC
\* midnight of the due date, today the local midnight.
overdueCounted(ts, t, tz) ==
  LET today == LocalMidnight(LocalDay(t, tz), tz)
  IN SelectSeq(ts, LAMBDA x : x.dueDate # NoDate /\ UtcMidnight(x.dueDate) < today /\ ~x.completed)

\* case 'DELETE_OVERDUE'
deleteOverdueAction(acc, action, env) ==
  LET c == env.closure
      With(overdue) ==
        IF Len(overdue) = 0
        THEN Logged(acc, Entry("DELETE_OVERDUE", << >>, "notify"))
        ELSE Logged([acc EXCEPT !.conf = Confirmation(TRUE, "DELETE_OVERDUE", Ids(overdue), << >>, c)],
                    Entry("DELETE_OVERDUE", Ids(overdue), "confirm"))
  IN With(overdueCounted(c.tasks, env.now, env.tz))

\* case 'DELETE_ALL'
deleteAllAction(acc, action, env) ==
  LET c == env.closure
  IN IF Len(c.tasks) = 0
     THEN Logged(acc, Entry("DELETE_ALL", << >>, "notify"))
     ELSE Logged([acc EXCEPT !.conf = Confirmation(TRUE, "DELETE_ALL", Ids(c.tasks), << >>, c)],
                 Entry("DELETE_ALL", Ids(c.tasks), "confirm"))

\* A MARK_COMPLETED that completes whatever it resolved, without the selection.
completeWithoutAsking(acc, action, env) ==
  LET With(idsToComplete) ==
        IF Len(idsToComplete) = 0 THEN Logged(acc, Entry("MARK_COMPLETED", << >>, "notify"))
        ELSE Logged(Called(acc, CallRec("completeTasks", "array", idsToComplete, << >>),
                           completeTasks(acc.st, env.closure, idsToComplete, TRUE, env.now)),
                    Entry("MARK_COMPLETED", idsToComplete,
                          IF Len(idsToComplete) = 1 THEN "immediate" ELSE "select"))
  IN With(IF "text" \in DOMAIN action.filter
          THEN getFuzzyMatchingTaskIds(Incomplete(env.closure.tasks), action.filter.text)
          ELSE getFilteredTaskIds(action.filter, env.closure.tasks, env.moveCompleted, env.now, env.tz))

\* case 'MARK_COMPLETED'
markCompletedAction(acc, action, env) ==
  LET c == env.closure
      HasFilter(f) == "filter" \in DOMAIN action /\ f \in DOMAIN action.filter
      byTextOnly ==
        /\ ~(HasFilter("positions") /\ Len(action.filter.positions) > 0)
        /\ HasFilter("text") /\ action.filter.text # NoText
      With(idsToComplete) ==
        IF Len(idsToComplete) = 0 THEN Logged(acc, Entry("MARK_COMPLETED", << >>, "notify"))
        ELSE IF Len(idsToComplete) = 1
        THEN Logged(Called(acc, CallRec("completeTasks", "array", idsToComplete, << >>),
                           completeTasks(acc.st, c, idsToComplete, TRUE, env.now)),
                    Entry("MARK_COMPLETED", idsToComplete, "immediate"))
        ELSE Logged([acc EXCEPT !.comp =
                       Selection(TRUE, SelectSeq(c.tasks, LAMBDA x : x.id \in Range(idsToComplete)), << >>)],
                    Entry("MARK_COMPLETED", idsToComplete, "select"))
  IN With(IF byTextOnly THEN getFuzzyMatchingTaskIds(Incomplete(c.tasks), action.filter.text)
          ELSE resolve(action, env))

\* case 'MARK_INCOMPLETE'
markIncompleteAction(acc, action, env) ==
  LET With(idsToUncomplete) ==
        IF Len(idsToUncomplete) = 0 THEN Logged(acc, Entry("MARK_INCOMPLETE", << >>, "unknown"))
        ELSE Logged(Called(acc, CallRec("completeTasks", "array", idsToUncomplete, << >>),
                           completeTasks(acc.st, env.closure, idsToUncomplete, FALSE, env.now)),
                    Entry("MARK_INCOMPLETE", idsToUncomplete, "immediate"))
  IN With(resolve(action, env))

\* Faulty variant of updateTaskAction: several matches without a text filter
\* are updated without asking.
updateWithoutAsking(acc, action, env) ==
  LET c == env.closure
      hasText == "filter" \in DOMAIN action /\ "text" \in DOMAIN action.filter /\ action.filter.text # NoText
      With(idsToUpdate) ==
        IF Len(idsToUpdate) = 0 THEN Logged(acc, Entry("UPDATE_TASK", << >>, "notify"))
        ELSE IF Len(idsToUpdate) > 1 /\ hasText
        THEN Logged([acc EXCEPT !.upd =
                       Selection(TRUE, SelectSeq(c.tasks, LAMBDA x : x.id \in Range(idsToUpdate)),
                                 action.updates)],
                    Entry("UPDATE_TASK", idsToUpdate, "select"))
        ELSE Logged(Called(acc, CallRec("updateTasks", "array", idsToUpdate, action.updates),
                           performUpdate(acc.st, c, action.updates, idsToUpdate, env.now, env.tz)),
                    Entry("UPDATE_TASK", idsToUpdate, "immediate"))
  IN IF "updates" \notin DOMAIN action THEN Logged(acc, Entry("UPDATE_TASK", << >>, "unknown"))
     ELSE With(resolve(action, env))

\* case 'UPDATE_TASK'
updateTaskAction(acc, action, env) ==
  LET c == env.closure
      updatesCount == Cardinality(DOMAIN action.updates)
      hasText == "filter" \in DOMAIN action /\ "text" \in DOMAIN action.filter /\ action.filter.text # NoText
      With(idsToUpdate) ==
        IF Len(idsToUpdate) = 0 THEN Logged(acc, Entry("UPDATE_TASK", << >>, "notify"))
        ELSE IF Len(idsToUpdate) > 1
        THEN IF hasText /\ updatesCount > 0
             THEN Logged([acc EXCEPT !.upd =
                            Selection(TRUE, SelectSeq(c.tasks, LAMBDA x : x.id \in Range(idsToUpdate)),
                                      action.updates)],
                         Entry("UPDATE_TASK", idsToUpdate, "select"))
             ELSE Logged([acc EXCEPT !.conf =
                            Confirmation(TRUE, "UPDATE_TASK", idsToUpdate, action.updates, c)],
                         Entry("UPDATE_TASK", idsToUpdate, "confirm"))
        ELSE Logged(Called(acc, CallRec("updateTasks", "array", idsToUpdate, action.updates),
                           performUpdate(acc.st, c, action.updates, idsToUpdate, env.now, env.tz)),
                    Entry("UPDATE_TASK", idsToUpdate, "immediate"))
  IN IF "updates" \notin DOMAIN action THEN Logged(acc, Entry("UPDATE_TASK", << >>, "unknown"))
     ELSE With(resolve(action, env))

\* case 'SHOW_TASKS': the ids handed to setFilteredTasksState, or the toast.
showTasksAction(acc, action, env) ==
  LET With(filtered) ==
        IF Len(filtered) = 0 THEN Logged(acc, Entry("SHOW_TASKS", << >>, "notify"))
        ELSE Logged(acc, Entry("SHOW_TASKS", filtered, "shown"))
  IN IF "filter" \notin DOMAIN action THEN Logged(acc, Entry("SHOW_TASKS", << >>, "unknown"))
     ELSE With(SelectSeq(resolve(action, env), LAMBDA id : HasId(env.closure.tasks, id)))

\* case 'QUERY_TASK_INFO': ids are the targetTasks; the route is the answer
\* given: the count toast, the "Multiple Tasks Found" toast, or
\* setDetailsTask(targetTasks[0]).
queryTaskInfoAction(acc, action, env) ==
  LET With(targetTasks) ==
        IF Len(targetTasks) = 0 THEN Logged(acc, Entry("QUERY_TASK_INFO", << >>, "notify"))
        ELSE IF action.queryType = "count"
        THEN Logged(acc, Entry("QUERY_TASK_INFO", targetTasks, "count"))
        ELSE IF Len(targetTasks) > 1 /\ action.queryType # "details"
        THEN Logged(acc, Entry("QUERY_TASK_INFO", targetTasks, "ambiguous"))
        ELSE Logged(acc, Entry("QUERY_TASK_INFO", targetTasks, "details"))
  IN With(SelectSeq(resolve(action, env), LAMBDA id : HasId(env.closure.tasks, id)))

\* switch (action.intent)
runAction(acc, action, env) ==
  CASE action.intent = "ADD_TASK" -> addTaskAction(acc, action, env)
    [] action.intent = "DELETE_TASK" -> deleteTaskAction(acc, action, env)
    [] action.intent = "DELETE_OVERDUE" -> deleteOverdueAction(acc, action, env)
    [] action.intent = "MARK_COMPLETED" -> markCompletedAction(acc, action, env)
    [] action.intent = "MARK_INCOMPLETE" -> markIncompleteAction(acc, action, env)
    [] action.intent = "UPDATE_TASK" -> updateTaskAction(acc, action, env)
    [] action.intent = "SHOW_TASKS" -> showTasksAction(acc, action, env)
    [] action.intent = "QUERY_TASK_INFO" -> queryTaskInfoAction(acc, action, env)
    [] action.intent = "DELETE_ALL" -> deleteAllAction(acc, action, env)
    [] OTHER -> Logged(acc, Entry(action.intent, << >>, "unknown"))

\* The entries the n-th action logged, marked with n and with whether the task
\* collection changed while it was interpreted.
marked(acc, after, n) ==
  [after EXCEPT !.log = [i \in 1..Len(after.log) |->
                           IF i <= Len(acc.log) THEN after.log[i]
                           ELSE [after.log[i] EXCEPT !.n = n,
                                                     !.changed = (after.st.tasks # acc.st.tasks),
                                                     !.at = acc.st.tasks]]]

\* A loop that returns at the first action that found nothing to act on.
RECURSIVE returnOnNoMatch(_, _, _, _)
returnOnNoMatch(acc, actions, n, env) ==
  IF n > Len(actions) THEN acc
  ELSE LET after == marked(acc, runAction(acc, actions[n], env), n)
           last == after.log[Len(after.log)]
       IN IF Len(after.log) > Len(acc.log) /\ last.ids = << >> /\ last.route \in {"notify", "unknown"}
          THEN after
          ELSE returnOnNoMatch(after, actions, n + 1, env)

\* for (const action of analysis.actions): the n-th action and those after it.
RECURSIVE runActions(_, _, _, _)
runActions(acc, actions, n, env) ==
  IF n > Len(actions) THEN acc
  ELSE runActions(marked(acc, runAction(acc, actions[n], env), n), actions, n + 1, env)

\* The body of handleRecordingComplete after the transcript and the analysis
\* have arrived: the loop over the actions, then the flush of tasksToAdd.
\* newIds are the ids crypto.randomUUID hands out.
interpret(acc0, actions, env, newIds) ==
  LET Flush(acc) ==
        IF Len(acc.toAdd) > 0
        THEN Called(acc, CallRec("addTasks", "array", SubSeq(newIds, 1, Len(acc.toAdd)), << >>),
                    addTasks(acc.st, env.closure, acc.toAdd, newIds, env.now))
        ELSE acc
  IN Flush(runActions(acc0, actions, 1, env))

\* confirmationState.onConfirm(): [store, call, count], count being what
\* deleteOverdueTasks returned.
onConfirm(st, conf, t, tz) ==
  CASE conf.onConfirm = "DELETE_TASK" ->
         [store |-> deleteTask(st, conf.closure, ArrayArg(conf.ids)),
          call |-> CallRec("deleteTask", "array", conf.ids, << >>), count |-> 0]
    [] conf.onConfirm = "DELETE_OVERDUE" ->
         LET r == deleteOverdueTasks(st, conf.closure, t, tz)
         IN [store |-> r.store, call |-> CallRec("deleteOverdueTasks", "none", << >>, << >>),
             count |-> r.count]
    [] conf.onConfirm = "DELETE_ALL" ->
         [store |-> deleteAllTasks(st, conf.closure),
          call |-> CallRec("deleteAllTasks", "none", << >>, << >>), count |-> 0]
    [] conf.onConfirm = "UPDATE_TASK" ->
         [store |-> performUpdate(st, conf.closure, conf.updates, conf.ids, t, tz),
          call |-> CallRec("updateTasks", "array", conf.ids, conf.updates), count |-> 0]
    [] OTHER -> [store |-> st, call |-> NoCall, count |-> 0]

\* -------------------------------------------------------- localStorage
\* JSON.stringify(tasks): for each task the values of its members, in the
\* order of its keys.
stringify(ts) ==
  [i \in 1..Len(ts) |-> << ts[i].id, ts[i].text, ts[i].completed, ts[i].priority, ts[i].dueDate,
                          ts[i].location, ts[i].createdAt, ts[i].lastUpdated >>]

\* JSON.parse of an item stringify wrote.
parse(json) ==
  [i \in 1..Len(json) |-> Task(json[i][1], json[i][2], json[i][3], json[i][4], json[i][5],
                               json[i][6], json[i][7], json[i][8])]

\* createMockTasks() at clock t, the first of its random ids being id.
createMockTasks(t, tz, id) ==
  << Task(id, "Submit the project report", FALSE, "high", LocalDay(t, tz) + 1, "Office", t, t),
     Task(id + 1, "Buy milk and eggs", FALSE, "medium", NoDate, "Supermarket", t - (5 * 60), t - (5 * 60)),
     Task(id + 2, "Review EchoTasks features", TRUE, "low", NoDate, NoText, t - (10 * 60), t - (10 * 60)) >>

\* The save effect: the item under STORAGE_KEY after a render with the
\* collection ts.  stored is [found, valid, json]: whether getItem returns a
\* string, whether JSON.parse accepts it, and what it holds.
saveEffect(isLoaded, stored, ts) ==
  IF isLoaded THEN [found |-> TRUE, valid |-> TRUE, json |-> stringify(ts)] ELSE stored

\* The load effect on mount: the collection it sets.
loadEffect(stored, o, t, tz, id) ==
  IF ~stored.found THEN sortTasks(createMockTasks(t, tz, id), o)
  ELSE IF ~stored.valid THEN sortTasks(createMockTasks(t, tz, id), o)
  ELSE IF Len(parse(stored.json)) > 0 THEN sortTasks(parse(stored.json), o)
  ELSE sortTasks(createMockTasks(t, tz, id), o)

\* --------------------------------------------------------------- inputs
\* The collection an earlier visit left in localStorage (JSON.parse of the
\* stored item), at clock t: an overdue high-priority task, a task due today
\* and a completed task without a date.
storedTasks(t, tz) ==
  << Task(1, T_PayRent, FALSE, "high", LocalDay(t, tz) - 1, NoText, t - (2 * DAY), t - (2 * DAY)),
     Task(2, T_BuyMilk, FALSE, "medium", LocalDay(t, tz), T_Office, t - DAY, t - DAY),
     Task(3, T_BuyEggs, TRUE, "low", NoDate, NoText, t - (3 * DAY), t - DAY) >>

\* What the transcript yields: detectPriorityFast's priority and the date
\* phrase chrono finds in it.
Transcripts == {[priority |-> "none", dueDate |-> DateExpr("bad", 0)]}

Add(text) == [intent |-> "ADD_TASK", tasks |-> << [text |-> text] >>]
AddDue(text, e) == [intent |-> "ADD_TASK", tasks |-> << [text |-> text, dueDate |-> e] >>]
Delete(filter) == [intent |-> "DELETE_TASK", filter |-> filter]
Complete(filter) == [intent |-> "MARK_COMPLETED", filter |-> filter]
Uncomplete(filter) == [intent |-> "MARK_INCOMPLETE", filter |-> filter]
Update(filter, updates) == [intent |-> "UPDATE_TASK", filter |-> filter, updates |-> updates]
DeleteOverdue == [intent |-> "DELETE_OVERDUE"]
DeleteAll == [intent |-> "DELETE_ALL"]

ByText(text) == [text |-> text]
ByPositions(ps) == [positions |-> ps]
All == Pos("all", 0, 0)

Tomorrow == DateExpr("rel", 1)
Unparsable == DateExpr("bad", 0)

\* The action lists the intent service returns in the runs explored.
Commands ==
  { << Add(T_CallMom) >>,
    << AddDue(T_PayRent, Tomorrow) >>,
    << AddDue(T_BuyMilk, Unparsable) >>,
    << Delete(ByText(T_Milk)) >>,
    << Delete(ByText(T_Rent)) >>,
    << Delete(ByPositions(<< All >>)) >>,
    << DeleteOverdue >>,
    << DeleteAll >>,
    << Uncomplete([status |-> "completed"]) >>,
    << Complete(ByText(T_Rent)) >>,
    << Complete(ByPositions(<< All >>)) >>,
    << Update(ByText(T_Milk), [dueDate |-> Unparsable]) >>,
    << Update(ByText(T_Milk), [dueDateShift |-> [days |-> 3]]) >>,
    << Update(ByText(T_Buy), [dueDateShift |-> [days |-> 3]]) >>,
    << Update(ByPositions(<< All >>), [dueDateShift |-> [weeks |-> 1]]) >>,
    << Add(T_CallMom), Update(ByText(T_CallMom), [priority |-> "high"]) >>,
    << AddDue(T_PayRent, Tomorrow), DeleteOverdue >>,
    << AddDue(T_PayRent, Tomorrow), Complete(ByText(T_Rent)) >>,
    << Add(T_Milk) >>,
    << Uncomplete([status |-> "completed"]), Add(T_Eggs) >>,
    << Uncomplete([status |-> "completed"]), AddDue(T_Eggs, Tomorrow) >>,
    [i \in 1..2 |-> [intent |-> "SHOW_TASKS", filter |-> [status |-> "completed"]]],
    << [intent |-> "QUERY_TASK_INFO", queryType |-> "count", filter |-> ByText(T_Buy)],
       [intent |-> "QUERY_TASK_INFO", queryType |-> "count", filter |-> [status |-> "completed"]] >>,
    << [intent |-> "QUERY_TASK_INFO", queryType |-> "details", filter |-> ByText(T_Buy)],
       [intent |-> "QUERY_TASK_INFO", queryType |-> "priority", filter |-> ByText(T_Buy)] >>,
    << [intent |-> "QUERY_TASK_INFO", queryType |-> "deadline", filter |-> ByText(T_Rent)] >>,
    << [intent |-> "ADD_TASK"], Complete(ByText(T_Rent)) >>,
    << DeleteOverdue, DeleteAll >> }

\* ---------------------------------------------------------------- state
VARIABLES
  tasks,              \* useTasks: tasks
  lastAction,         \* useTasks: lastAction, the undo slot
  sortOption,         \* Home: sortOption
  moveCompleted,      \* settings.moveCompletedToBottom
  tz,                 \* the browser's offset from UTC, in seconds
  now,                \* the clock
  nextId,             \* the next id crypto.randomUUID returns
  phase,              \* "idle", "recording" or "processing" (isProcessing)
  handler,            \* the closure of the onRecordingComplete the recorder holds
  confirmationState,
  updateState,
  completionState,
  undoTimer,          \* the timeout of the undo expiry effect: << >>, or << the time it was set >>
  steps,              \* handlers run so far
  obs                 \* what the last handler did

vars == << tasks, lastAction, sortOption, moveCompleted, tz, now, nextId, phase, handler,
           confirmationState, updateState, completionState, undoTimer, steps, obs >>

env == << moveCompleted, tz, now >>
dialogs == << confirmationState, updateState, completionState >>
recorder == << phase, handler >>

store == Store(tasks, lastAction)
fresh == Closure(tasks, sortOption)

\* obs, the record of the last handler that ran:
\*   op       the handler
\*   before   the store when it started
\*   view     the `tasks` of its closure
\*   pre      the store before its last store call
\*   calls    its store calls, in order
\*   actions  the action list (handleRecordingComplete)
\*   log      the entries of the actions
\*   ret      what deleteOverdueTasks returned
\*   time     the clock when it ran
\*   last, lastPre   for handleUndo: the last store call of the handler that
\*            ran before it, and the store before that call
Observed(op, view, pre, calls, actions, log, ret) ==
  [op |-> op, before |-> store, view |-> view, pre |-> pre, calls |-> calls,
   actions |-> actions, log |-> log, ret |-> ret, time |-> now,
   last |-> NoCall, lastPre |-> Store(<< >>, NoUndo)]

NoDialogOpen == ~confirmationState.isOpen /\ ~updateState.isOpen /\ ~completionState.isOpen

\* The page after the load effect, with the default settings.
Init ==
  /\ tz \in TZOffsets
  /\ moveCompleted = FALSE
  /\ now = Now0
  /\ sortOption = "creationDate"
  /\ tasks = sortTasks(storedTasks(Now0, tz), "creationDate")
  /\ lastAction = NoUndo
  /\ nextId = 4
  /\ phase = "idle"
  /\ handler = Closure(<< >>, "creationDate")
  /\ confirmationState = NoConfirmation
  /\ updateState = NoSelection
  /\ completionState = NoSelection
  /\ undoTimer = << >>
  /\ steps = 0
  /\ obs = Observed("none", << >>, Store(<< >>, NoUndo), << >>, << >>, << >>, 0)

\* The delay of the undo expiry timer, in seconds.
UNDO_EXPIRY == 10

\* An expiry effect without cleanup: the timeout set for an earlier entry
\* stays when a later entry is recorded.
timeoutNotCleared(timer, before, after, t) ==
  IF after = before THEN timer
  ELSE IF after = NoUndo THEN << >>
  ELSE IF timer # << >> THEN timer ELSE << t >>

\* useEffect(..., [lastAction, clearLastAction]) of the page, run for a render
\* at clock t in which lastAction went from `before` to `after`: the cleanup
\* clears the timeout of the previous run, and a timeout is set when
\* lastAction is set.
undoExpiryEffect(timer, before, after, t) ==
  IF after = before THEN timer
  ELSE IF after = NoUndo THEN << >> ELSE << t >>

\* Every handler below runs to completion; `after` is the store it leaves.
\* The handlers the user starts on the page are counted (cost 1); the answer
\* to a dialog a command opened belongs to that command (cost 0).
Ran(after, observed, cost) ==
  /\ steps + cost <= MaxSteps
  /\ steps' = steps + cost
  /\ tasks' = after.tasks
  /\ lastAction' = after.lastAction
  /\ undoTimer' = undoExpiryEffect(undoTimer, lastAction, after.lastAction, now)
  /\ obs' = observed

\* A handler of the page that makes one store call in the current render.
Calls(op, call, after, cost) ==
  Ran(after, Observed(op, tasks, store, << call >>, << >>, << >>, 0), cost)

\* TaskList onToggle
ToggleTask ==
  /\ NoDialogOpen
  /\ \E i \in 1..Len(tasks) :
       Calls("onToggle", CallRec("toggleTask", "string", << tasks[i].id >>, << >>),
             toggleTask(store, fresh, tasks[i].id, now), 1)
  /\ UNCHANGED << sortOption, env, nextId, recorder, dialogs >>

\* TaskList onDelete
DeleteTask ==
  /\ NoDialogOpen
  /\ \E i \in 1..Len(tasks) :
       Calls("onDelete", CallRec("deleteTask", "string", << tasks[i].id >>, << >>),
             deleteTask(store, fresh, IdArg(tasks[i].id)), 1)
  /\ UNCHANGED << sortOption, env, nextId, recorder, dialogs >>

\* EditTaskDialog handleSave -> handleUpdateTask: the whole task is handed to
\* updateTask, the date field holding a YYYY-MM-DD string or null.
EditTask ==
  /\ NoDialogOpen
  /\ \E i \in 1..Len(tasks) :
       LET task == tasks[i]
           form == [task EXCEPT !.dueDate = IF @ = NoDate THEN NullExpr ELSE IsoExpr(@)]
       IN \E updatedTask \in {[form EXCEPT !.priority = "low"],
                              [form EXCEPT !.dueDate = IsoExpr(LocalDay(now, tz) + 2)]} :
            Calls("handleUpdateTask", CallRec("updateTask", "string", << task.id >>, updatedTask),
                  updateTask(store, fresh, task.id, updatedTask, now, tz), 1)
  /\ UNCHANGED << sortOption, env, nextId, recorder, dialogs >>

\* addTask, as the earlier voice handler calls it for one descriptor.
AddTask ==
  /\ NoDialogOpen
  /\ Len(tasks) < MaxTasks
  /\ Calls("addTask", CallRec("addTask", "none", << nextId >>, << >>),
           addTask(store, fresh, [text |-> T_CallMom, priority |-> "medium",
                                  dueDate |-> LocalDay(now, tz) - 1, location |-> NoText],
                   nextId, now),
           1)
  /\ nextId' = nextId + 1
  /\ UNCHANGED << sortOption, env, recorder, dialogs >>

\* handleUndo; the button is rendered while lastAction is set.
Undo_ ==
  /\ NoDialogOpen
  /\ lastAction # NoUndo
  /\ Ran(revertLastAction(store, fresh),
         [Observed("handleUndo", tasks, store,
                   << CallRec("revertLastAction", "none", << >>, << >>) >>, << >>, << >>, 0)
            EXCEPT !.last = IF Len(obs.calls) > 0 THEN obs.calls[Len(obs.calls)] ELSE NoCall,
                   !.lastPre = obs.pre],
         1)
  /\ UNCHANGED << sortOption, env, nextId, recorder, dialogs >>

\* The sort dropdown; the effect on [sortOption] re-sorts the tasks.
SetSortOption ==
  /\ NoDialogOpen
  /\ \E o \in SortOptions \ {sortOption} :
       /\ sortOption' = o
       /\ Ran(Store(sortTasks(tasks, o), lastAction),
              Observed("setSortOption", tasks, store, << >>, << >>, << >>, 0), 1)
  /\ UNCHANGED << env, nextId, recorder, dialogs >>

\* VoiceRecorder startRecording (the button, or the space bar): onstop keeps
\* the onRecordingComplete of this render.
StartRecording ==
  /\ phase = "idle"
  /\ steps < MaxSteps
  /\ phase' = "recording"
  /\ handler' = fresh
  /\ UNCHANGED << tasks, lastAction, sortOption, env, nextId, dialogs, undoTimer, steps, obs >>

\* onstop -> handleRecordingComplete up to `await processVoiceCommand`.
StopRecording ==
  /\ phase = "recording"
  /\ phase' = "processing"
  /\ UNCHANGED << tasks, lastAction, sortOption, env, nextId, handler, dialogs, undoTimer, steps, obs >>

\* handleRecordingComplete from the await on, for an analysis with actions.
HandleRecordingComplete ==
  /\ phase = "processing"
  /\ \E actions \in Commands, transcript \in Transcripts :
       LET acc0 == [st |-> store, pre |-> store, conf |-> confirmationState, upd |-> updateState,
                    comp |-> completionState, toAdd |-> << >>, log |-> << >>, calls |-> << >>]
           e == [closure |-> handler, moveCompleted |-> moveCompleted, now |-> now, tz |-> tz,
                 transcript |-> transcript]
       IN \E acc \in {interpret(acc0, actions, e, [i \in 1..2 |-> nextId + i - 1])} :
          /\ Len(acc.st.tasks) <= MaxTasks
          /\ Ran(acc.st, Observed("handleRecordingComplete", handler.tasks, acc.pre, acc.calls,
                                  actions, acc.log, 0),
                 1)
          /\ confirmationState' = acc.conf
          /\ updateState' = acc.upd
          /\ completionState' = acc.comp
          /\ nextId' = nextId + Len(acc.toAdd)
  /\ phase' = "idle"
  /\ UNCHANGED << sortOption, env, handler >>

\* An early return that also empties the undo slot.
RejectedClearsUndo ==
  /\ phase = "processing"
  /\ Ran(Store(tasks, NoUndo),
         Observed("handleRecordingComplete", handler.tasks, store, << >>, << >>, << >>, 0), 1)
  /\ phase' = "idle"
  /\ UNCHANGED << sortOption, env, nextId, handler, dialogs >>

\* An early return that leaves the try statement without its finally block:
\* isProcessing stays true.
ReturnSkipsFinally ==
  /\ phase = "processing"
  /\ Ran(store, Observed("handleRecordingComplete", handler.tasks, store, << >>, << >>, << >>, 0), 1)
  /\ UNCHANGED << sortOption, env, nextId, recorder, dialogs >>

\* handleRecordingComplete from the await on, on the paths that interpret
\* nothing: processVoiceCommand throws (catch), the transcript is empty, or
\* there is no analysis, no action or none but UNKNOWN actions (the two early
\* returns); finally resets isProcessing.
HandleRecordingRejected ==
  /\ phase = "processing"
  /\ \E response \in
         {[failed |-> TRUE, transcript |-> NoText, analysed |-> FALSE, actions |-> << >>],
          [failed |-> FALSE, transcript |-> NoText, analysed |-> FALSE, actions |-> << >>],
          [failed |-> FALSE, transcript |-> T_CallMom, analysed |-> FALSE, actions |-> << >>],
          [failed |-> FALSE, transcript |-> T_CallMom, analysed |-> TRUE, actions |-> << >>],
          [failed |-> FALSE, transcript |-> T_CallMom, analysed |-> TRUE,
           actions |-> << [intent |-> "UNKNOWN"] >>]} :
       /\ \/ response.failed
          \/ response.transcript = NoText
          \/ ~response.analysed
          \/ Len(response.actions) = 0
          \/ \A n \in 1..Len(response.actions) : response.actions[n].intent = "UNKNOWN"
       /\ Ran(store,
              Observed("handleRecordingComplete", handler.tasks, store, << >>, response.actions,
                       << >>, 0),
              1)
  /\ phase' = "idle"
  /\ UNCHANGED << sortOption, env, nextId, handler, dialogs >>

\* ConfirmationDialog onConfirm -> handleConfirm
Confirm ==
  /\ confirmationState.isOpen
  /\ \E r \in {onConfirm(store, confirmationState, now, tz)} :
       Ran(r.store, Observed("handleConfirm", confirmationState.closure.tasks, store,
                             << r.call >>, << >>, << >>, r.count),
           0)
  /\ confirmationState' = NoConfirmation
  /\ UNCHANGED << sortOption, env, nextId, recorder, updateState, completionState >>

\* A dismissal that runs the deferred action before it closes the dialog.
DismissRunsDeferred ==
  /\ confirmationState.isOpen
  /\ confirmationState' = NoConfirmation
  /\ \E r \in {onConfirm(store, confirmationState, now, tz)} :
       Ran(r.store, Observed("handleCloseConfirmation", tasks, store, << r.call >>, << >>, << >>, 0), 0)
  /\ UNCHANGED << sortOption, env, nextId, recorder, updateState, completionState >>

\* ConfirmationDialog onOpenChange -> handleCloseConfirmation
CloseConfirmation ==
  /\ confirmationState.isOpen
  /\ confirmationState' = NoConfirmation
  /\ Ran(store, Observed("handleCloseConfirmation", tasks, store, << >>, << >>, << >>, 0), 0)
  /\ UNCHANGED << sortOption, env, nextId, recorder, updateState, completionState >>

\* UpdateTasksDialog handleConfirm -> handleUpdateTasks(selectedIds, updates)
UpdateSelected ==
  /\ updateState.isOpen
  /\ \E S \in (SUBSET Range(Ids(updateState.tasks))) \ {{}} :
       LET ids == SelectSeq(Ids(updateState.tasks), LAMBDA id : id \in S)
       IN Calls("handleUpdateTasks", CallRec("updateTasks", "array", ids, updateState.updates),
                updateTasks(store, fresh, [i \in 1..Len(ids) |-> [id |-> ids[i], updates |-> updateState.updates]],
                            now, tz),
                0)
  /\ updateState' = NoSelection
  /\ UNCHANGED << sortOption, env, nextId, recorder, confirmationState, completionState >>

\* UpdateTasksDialog onOpenChange(false)
CloseUpdate ==
  /\ updateState.isOpen
  /\ updateState' = NoSelection
  /\ Ran(store, Observed("closeUpdate", tasks, store, << >>, << >>, << >>, 0), 0)
  /\ UNCHANGED << sortOption, env, nextId, recorder, confirmationState, completionState >>

\* CompleteTasksDialog handleConfirm -> handleCompleteTasks(selectedIds)
CompleteSelected ==
  /\ completionState.isOpen
  /\ \E S \in SUBSET Range(Ids(completionState.tasks)) :
       LET ids == SelectSeq(Ids(completionState.tasks), LAMBDA id : id \in S)
       IN IF Len(ids) > 0
          THEN Calls("handleCompleteTasks", CallRec("completeTasks", "array", ids, << >>),
                     completeTasks(store, fresh, ids, TRUE, now), 0)
          ELSE Ran(store, Observed("handleCompleteTasks", tasks, store, << >>, << >>, << >>, 0), 0)
  /\ completionState' = NoSelection
  /\ UNCHANGED << sortOption, env, nextId, recorder, confirmationState, updateState >>

\* CompleteTasksDialog onOpenChange(false)
CloseCompletion ==
  /\ completionState.isOpen
  /\ completionState' = NoSelection
  /\ Ran(store, Observed("closeCompletion", tasks, store, << >>, << >>, << >>, 0), 0)
  /\ UNCHANGED << sortOption, env, nextId, recorder, confirmationState, updateState >>

Next ==
  \/ ToggleTask
  \/ DeleteTask
  \/ EditTask
  \/ AddTask
  \/ Undo_
  \/ SetSortOption
  \/ StartRecording
  \/ StopRecording
  \/ HandleRecordingComplete
  \/ HandleRecordingRejected
  \/ Confirm
  \/ CloseConfirmation
  \/ UpdateSelected
  \/ CloseUpdate
  \/ CompleteSelected
  \/ CloseCompletion

Spec == Init /\ [][Next]_vars

\* The recorder and the dialogs its commands open, with the await of
\* handleRecordingComplete settling: once processVoiceCommand has been called
\* its promise is resolved or rejected, and the event loop runs the rest of
\* the handler.  HandleRecordingRejected is enabled exactly while the handler
\* waits, so its weak fairness says that the wait ends, by
\* HandleRecordingComplete or by HandleRecordingRejected.
LiveNext ==
  \/ StartRecording
  \/ StopRecording
  \/ HandleRecordingComplete
  \/ HandleRecordingRejected
  \/ Confirm
  \/ CloseConfirmation
  \/ UpdateSelected
  \/ CloseUpdate
  \/ CompleteSelected
  \/ CloseCompletion

LiveSpec == Init /\ [][LiveNext]_vars /\ WF_vars(HandleRecordingRejected)

\* ------------------------------------------------------- the page in time
\* The clock advances by half the expiry delay; a timeout that is due runs
\* before the clock passes its time.
MaxTicks == 3

Tick ==
  LET step == UNDO_EXPIRY \div 2
  IN /\ now + step <= Now0 + (MaxTicks * step)
     /\ IF undoTimer = << >> THEN TRUE ELSE now + step <= undoTimer[1] + UNDO_EXPIRY
     /\ now' = now + step
     /\ UNCHANGED << tasks, lastAction, sortOption, moveCompleted, tz, nextId, recorder, dialogs,
                     undoTimer, steps, obs >>

\* The timeout's callback: clearLastAction().  last and lastPre are kept as
\* for handleUndo.
ExpireUndo ==
  /\ undoTimer # << >>
  /\ now >= undoTimer[1] + UNDO_EXPIRY
  /\ Ran(Store(tasks, NoUndo),
         [Observed("clearLastAction", tasks, store, << >>, << >>, << >>, 0)
            EXCEPT !.last = IF Len(obs.calls) > 0 THEN obs.calls[Len(obs.calls)] ELSE NoCall,
                   !.lastPre = obs.pre],
         0)
  /\ UNCHANGED << sortOption, env, nextId, recorder, dialogs >>

\* The handlers of the list and of the Undo button, the clock and the timeout.
TimedNext ==
  \/ ToggleTask
  \/ DeleteTask
  \/ EditTask
  \/ AddTask
  \/ Undo_
  \/ SetSortOption
  \/ Tick
  \/ ExpireUndo

TimedSpec == Init /\ [][TimedNext]_vars

\* ------------------------------------------------ the functions on their own
\* sortTasks, getFilteredTaskIds and getFuzzyMatchingTaskIds applied once to
\* inputs drawn from bounded sets: `tasks` is the list handed in, obs the
\* call and what it returned.

\* The longest list handed in.
MaxLen == 3

\* The tasks the lists are made of.  Every sort key has a tie (priority of 1
\* and 2, due date of 1 and 5, createdAt of 1 and 2, lastUpdated of 1 and 3),
\* two tasks have no due date, one has no priority and two are completed.
sampleTasks ==
  << Task(1, T_SubmitReport, FALSE, "high", 20000, T_Office, Now0 - (2 * DAY), Now0 - DAY),
     Task(2, T_BuyMilk, FALSE, "high", NoDate, NoText, Now0 - (2 * DAY), Now0 - (2 * DAY)),
     Task(3, T_PayRent, TRUE, Null, 19999, NoText, Now0 - DAY, Now0 - DAY),
     Task(4, T_BuyEggs, TRUE, "low", NoDate, NoText, Now0 - (3 * DAY), Now0 - (3 * DAY)),
     Task(5, T_WalkDog, FALSE, "medium", 20000, NoText, Now0, Now0) >>

\* The lists of at most MaxLen different tasks, in every order.
TaskLists ==
  UNION {{[i \in 1..n |-> sampleTasks[f[i]]] :
            f \in {g \in [1..n -> 1..Len(sampleTasks)] :
                     \A i, j \in 1..n : i # j => g[i] # g[j]}} : n \in 0..MaxLen}

\* filter.positions: one token, or two tokens that are words or numbers.  The
\* tokens are the words, the numbers from 0 to one past the longest list, and
\* the ranges whose bounds run from -MaxLen to one past the longest list.
PositionLists ==
  LET words == {Pos(k, 0, 0) : k \in {"last", "second last", "odd", "even", "all"}}
      numbers == {Pos("num", a, 0) : a \in 0..(MaxLen + 1)}
      ranges == {Pos("range", a, b) : a, b \in (0 - MaxLen)..(MaxLen + 1)}
  IN {<< p >> : p \in words \cup numbers \cup ranges}
     \cup {<< p, q >> : p, q \in words \cup numbers}

\* The attribute fields a filter carries besides its positions: none, or one.
AttributeFields ==
  { << >>,
    [text |-> T_Milk],
    [dueDate |-> DateQuery("rel", 0, -1)],
    [status |-> "completed"],
    [priority |-> << "high" >>],
    [location |-> T_Office] }

\* The texts handed to detectPriorityFast, with what chrono.parse finds in
\* them: an optional urgency phrase, impact word, location word and recurrence
\* marker (some of them in capitals, some inside a longer word) in front of
\* "call mom", and no date or a date from an hour ago to three days and a half
\* hour from now.
Utterances ==
  LET urgent == {<< >>, <<"U", "r", "g", "e", "n", "t", " ">>, <<" ", "r", "i", "g", "h", "t", " ", "a", "w", "a", "y", " ">>}
      impact == {<< >>, <<"p", "a", "y", " ", "T", "a", "x", " ">>, <<"u", "n", "d", "e", "f", "i", "n", "e", "d", " ">>}
      location == {<< >>, <<"r", "e", "s", "t", "o", "r", "e", " ">>}
      routine == {<< >>, <<"e", "v", "e", "r", "y", " ">>}
      parses == {[found |-> FALSE, hrs2 |-> 0]}
                \cup {[found |-> TRUE, hrs2 |-> h] : h \in {-2, 1, 8, 9, 48, 49, 144, 145}}
  IN {[raw |-> u \o i \o l \o r \o <<"c", "a", "l", "l", " ", "m", "o", "m">>, parsed |-> d] :
        u \in urgent, i \in impact, l \in location, r \in routine, d \in parses}

PureInit ==
  /\ tasks \in TaskLists
  /\ tz \in TZOffsets
  /\ moveCompleted \in BOOLEAN
  /\ now = Now0
  /\ sortOption = "creationDate"
  /\ lastAction = NoUndo
  /\ nextId = Len(sampleTasks) + 1
  /\ phase = "idle"
  /\ handler = Closure(<< >>, "creationDate")
  /\ confirmationState = NoConfirmation
  /\ updateState = NoSelection
  /\ completionState = NoSelection
  /\ undoTimer = << >>
  /\ steps = 0
  /\ obs = [op |-> "none"]

\* One call of one of the functions; none of them touches the page's state.
Applied(observed) ==
  /\ steps = 0
  /\ steps' = 1
  /\ obs' = observed
  /\ UNCHANGED << tasks, lastAction, sortOption, env, nextId, recorder, dialogs, undoTimer >>

\* sortTasks(tasks, sortOption)
ApplySortTasks ==
  \E o \in SortOptions :
    Applied([op |-> "sortTasks", sortOption |-> o, input |-> tasks, output |-> sortTasks(tasks, o)])

\* getFilteredTaskIds(filter) for a filter with positions, in a render whose
\* `tasks` is the list and whose settings hold moveCompleted.
ApplyGetFilteredTaskIds ==
  \E positions \in PositionLists, fields \in AttributeFields :
    Applied([op |-> "getFilteredTaskIds", positions |-> positions, fields |-> fields,
             ids |-> getFilteredTaskIds([positions |-> positions] @@ fields,
                                        tasks, moveCompleted, now, tz)])

\* getFuzzyMatchingTaskIds(tasks, topic)
ApplyGetFuzzyMatchingTaskIds ==
  \E topic \in Texts :
    Applied([op |-> "getFuzzyMatchingTaskIds", topic |-> topic,
             ids |-> getFuzzyMatchingTaskIds(tasks, topic)])

\* The calls detectPriorityFast(transcript): each utterance with what the
\* function returns for it.
PriorityCalls ==
  {[op |-> "detectPriorityFast", raw |-> u.raw, parsed |-> u.parsed,
    result |-> detectPriorityFast(u.raw, u.parsed)] : u \in Utterances}

\* detectPriorityFast(transcript)
ApplyDetectPriorityFast ==
  \E call \in PriorityCalls : Applied(call)

\* The page is opened again: the load effect reads what the save effect of the
\* earlier visit wrote for the collection, or finds no item, or an item that
\* does not parse.
ApplyLoadEffect ==
  \E kind \in {"saved", "missing", "corrupt"} :
    LET missing == [found |-> FALSE, valid |-> FALSE, json |-> << >>]
        stored == CASE kind = "saved" -> saveEffect(TRUE, missing, tasks)
                    [] kind = "missing" -> saveEffect(FALSE, missing, tasks)
                    [] OTHER -> [found |-> TRUE, valid |-> FALSE, json |-> << >>]
    IN Applied([op |-> "loadEffect", saved |-> tasks, stored |-> stored,
                result |-> loadEffect(stored, "creationDate", now, tz, nextId)])

PureNext ==
  \/ ApplySortTasks
  \/ ApplyGetFilteredTaskIds
  \/ ApplyGetFuzzyMatchingTaskIds
  \/ ApplyDetectPriorityFast
  \/ ApplyLoadEffect

PureSpec == PureInit /\ [][PureNext]_vars

\* ================================================================ properties
\* Each property reads obs, the record of the handler that ran last, together
\* with the store that handler left.

\* C1: revertLastAction, called right after a single store mutation that
\* changed the collection (addTask, toggleTask, updateTask, deleteTask,
\* completeTasks, deleteOverdueTasks or deleteAllTasks), gives back the
\* collection as it was before that mutation, same ids and same fields, and
\* empties lastAction.
C1_RevertRestores ==
  (/\ obs.op = "handleUndo"
   /\ obs.last.fn \in {"addTask", "toggleTask", "updateTask", "deleteTask",
                       "completeTasks", "deleteOverdueTasks", "deleteAllTasks"}
   /\ Range(obs.before.tasks) # Range(obs.lastPre.tasks))
  => (Range(tasks) = Range(obs.lastPre.tasks) /\ lastAction = NoUndo)

\* C2: within one action list a later action is resolved against the store
\* the earlier actions produced: a task an ADD_TASK action created is among
\* the tasks a following UPDATE_TASK, DELETE_TASK or MARK_COMPLETED action
\* filtering on that very text resolves to.
C2_LaterActionSeesEarlier ==
  obs.op = "handleRecordingComplete" =>
    \A i, j \in 1..Len(obs.log) :
      LET a == obs.log[i]
          b == obs.log[j]
          added == obs.actions[a.n]
          later == obs.actions[b.n]
      IN (/\ a.intent = "ADD_TASK" /\ a.route = "queued" /\ Len(added.tasks) = 1
          /\ a.n < b.n
          /\ b.intent \in {"UPDATE_TASK", "DELETE_TASK", "MARK_COMPLETED"}
          /\ "text" \in DOMAIN later.filter
          /\ later.filter.text = added.tasks[1].text)
         => \E id \in Range(b.ids) : ~HasId(obs.before.tasks, id)

\* C3: a DELETE_TASK action that resolves to two or more tasks, or to one
\* task of high priority, leaves the collection as it is and asks for a
\* confirmation; one that resolves to exactly one task of another priority
\* removes that task at once, without a confirmation.
C3_DeleteTaskRouting ==
  obs.op = "handleRecordingComplete" =>
    \A i \in 1..Len(obs.log) :
      LET e == obs.log[i]
      IN (e.intent = "DELETE_TASK" /\ Len(e.ids) > 0) =>
           IF Len(e.ids) >= 2 \/ Find(obs.view, e.ids[1]).priority = "high"
           THEN e.route = "confirm" /\ ~e.changed
           ELSE e.route = "immediate" /\ ~HasId(tasks, e.ids[1])

\* C4: DELETE_OVERDUE with a nonzero overdue count and DELETE_ALL on a
\* non-empty store remove nothing before their confirmation is confirmed
\* (deleteOverdueTasks and deleteAllTasks are called by the confirmation's
\* handler only, and the action leaves the collection alone); with a zero
\* count, or on an empty store, no confirmation is opened and the store stays
\* as it is.
C4_BulkDeleteWaitsForConfirmation ==
  /\ \A k \in 1..Len(obs.calls) :
       obs.calls[k].fn \in {"deleteOverdueTasks", "deleteAllTasks"} => obs.op = "handleConfirm"
  /\ obs.op = "handleRecordingComplete" =>
       \A i \in 1..Len(obs.log) :
         LET e == obs.log[i]
         IN /\ e.intent = "DELETE_OVERDUE" =>
                 /\ ~e.changed
                 /\ (e.route = "confirm") = (Len(overdueCounted(obs.view, now, tz)) > 0)
                 /\ e.route \in {"confirm", "notify"}
            /\ e.intent = "DELETE_ALL" =>
                 /\ ~e.changed
                 /\ (e.route = "confirm") = (Len(obs.before.tasks) > 0)
                 /\ e.route \in {"confirm", "notify"}

\* C5: deleteOverdueTasks never removes a task without a dueDate or with a
\* dueDate of today or later; the tasks it leaves keep all their fields; and
\* it returns the number of tasks it removed.
C5_DeleteOverdueOnlyOverdue ==
  (obs.op = "handleConfirm" /\ obs.calls[1].fn = "deleteOverdueTasks") =>
    /\ \A i \in 1..Len(obs.pre.tasks) :
         LET task == obs.pre.tasks[i]
         IN (task.dueDate = NoDate \/ task.dueDate >= LocalDay(now, tz)) => task \in Range(tasks)
    /\ Range(tasks) \subseteq Range(obs.pre.tasks)
    /\ obs.ret = Len(obs.pre.tasks) - Len(tasks)

\* C6: deleteTask called with a list of ids, as the DELETE_TASK action calls
\* it, removes exactly the listed tasks and records one delete-many entry
\* holding them; called with a single id it removes that task and records a
\* delete entry holding it.
C6_DeleteListOrSingle ==
  LET call == IF Len(obs.calls) > 0 THEN obs.calls[Len(obs.calls)] ELSE NoCall
      listed == SelectSeq(obs.pre.tasks, LAMBDA x : x.id \in Range(call.ids))
  IN (call.fn = "deleteTask" /\ Len(listed) > 0) =>
       /\ tasks = SelectSeq(obs.pre.tasks, LAMBDA x : x.id \notin Range(call.ids))
       /\ lastAction = Undo(IF call.kind = "array" THEN "delete-many" ELSE "delete", 0, listed)

C8_ShiftFromOwnDueDate ==
  LET call == IF Len(obs.calls) > 0 THEN obs.calls[Len(obs.calls)] ELSE NoCall
      Field(shift, f) == IF f \in DOMAIN shift THEN shift[f] ELSE 0
      Moved(d, shift) ==
        AddMonths((IF d # NoDate THEN d ELSE LocalDay(now, tz)) + Field(shift, "days")
                    + (7 * Field(shift, "weeks")),
                  Field(shift, "months"))
  IN (call.fn = "updateTasks" /\ "dueDateShift" \in DOMAIN call.updates) =>
       \A id \in Range(call.ids) :
         (HasId(obs.pre.tasks, id) /\ HasId(tasks, id)) =>
           Find(tasks, id).dueDate = Moved(Find(obs.pre.tasks, id).dueDate, call.updates.dueDateShift)

\* C9: an UPDATE_TASK action that resolves to two or more tasks changes no
\* task while it is interpreted and opens the selection dialog or a
\* confirmation; only an action that resolves to exactly one task updates at
\* once.
C9_NoSilentBulkUpdate ==
  obs.op = "handleRecordingComplete" =>
    /\ \A i \in 1..Len(obs.log) :
         LET e == obs.log[i]
         IN e.intent = "UPDATE_TASK" =>
              /\ Len(e.ids) >= 2 => (~e.changed /\ e.route \in {"select", "confirm"})
              /\ e.route = "immediate" => Len(e.ids) = 1
    /\ \A k \in 1..Len(obs.calls) :
         obs.calls[k].fn = "updateTasks" => Len(obs.calls[k].ids) = 1

\* C9, the case: an UPDATE_TASK action resolved to two or more tasks, a
\* dialog is open and the store is as the command found it.
C9_Witness ==
  /\ obs.op = "handleRecordingComplete"
  /\ \E i \in 1..Len(obs.log) :
       /\ obs.log[i].intent = "UPDATE_TASK" /\ Len(obs.log[i].ids) >= 2
       /\ obs.log[i].route = "confirm"
  /\ confirmationState.isOpen /\ confirmationState.onConfirm = "UPDATE_TASK"
  /\ store = obs.before

\* C10: a due-date expression that cannot be parsed leaves the task's
\* previous dueDate as it was, through updateTask and through an UPDATE_TASK
\* action alike.
C10_UnparsableKeepsDueDate ==
  LET call == IF Len(obs.calls) > 0 THEN obs.calls[Len(obs.calls)] ELSE NoCall
  IN (/\ call.fn \in {"updateTask", "updateTasks"}
      /\ "dueDate" \in DOMAIN call.updates
      /\ call.updates.dueDate.kind = "bad") =>
       \A id \in Range(call.ids) :
         (HasId(obs.pre.tasks, id) /\ HasId(tasks, id)) =>
           Find(tasks, id).dueDate = Find(obs.pre.tasks, id).dueDate

\* C11: sortTasks is stable for every sort option: two tasks with equal sort
\* keys (due date, priority rank, lastUpdated or createdAt, as the option says)
\* keep the order they had in the list handed in, the result holds the same
\* tasks, and sorting the result again with the same option returns it unchanged.
C11_SortStable ==
  obs.op = "sortTasks" =>
    LET input == obs.input
        output == obs.output
        key(task) ==
          CASE obs.sortOption = "dueDate" -> task.dueDate
            [] obs.sortOption \in {"priorityHighToLow", "priorityLowToHigh"} ->
                 (CASE task.priority = "high" -> 1 [] task.priority = "medium" -> 2
                    [] task.priority = "low" -> 3 [] OTHER -> 4)
            [] obs.sortOption = "lastUpdated" -> task.lastUpdated
            [] OTHER -> task.createdAt
        at(task) == CHOOSE k \in 1..Len(output) : output[k] = task
    IN /\ Len(output) = Len(input)
       /\ Range(output) = Range(input)
       /\ \A i, j \in 1..Len(input) :
            (i < j /\ key(input[i]) = key(input[j])) => at(input[i]) < at(input[j])
       /\ sortTasks(output, obs.sortOption) = output

\* A list of three tasks that sortTasks reorders although two of them have
\* equal keys.
C11_Witness ==
  /\ obs.op = "sortTasks"
  /\ Len(obs.input) = 3
  /\ obs.output # obs.input
  /\ \E i, j \in 1..3 :
       /\ i < j
       /\ compare(obs.input[i], obs.input[j], obs.sortOption) = 0

\* C12: under the dueDate sort option every task without a due date comes
\* after every task with one, and the tasks with a due date are in ascending
\* date order.
C12_DueDateNullsLast ==
  (obs.op = "sortTasks" /\ obs.sortOption = "dueDate") =>
    \A i, j \in 1..Len(obs.output) :
      i < j =>
        /\ obs.output[i].dueDate = NoDate => obs.output[j].dueDate = NoDate
        /\ (obs.output[i].dueDate # NoDate /\ obs.output[j].dueDate # NoDate)
             => obs.output[i].dueDate <= obs.output[j].dueDate

\* A list that starts with a task without a due date, followed by a later and
\* then an earlier due date, sorted by due date.
C12_Witness ==
  /\ obs.op = "sortTasks"
  /\ obs.sortOption = "dueDate"
  /\ Len(obs.input) = 3
  /\ obs.input[1].dueDate = NoDate
  /\ obs.input[2].dueDate # NoDate
  /\ obs.input[3].dueDate # NoDate
  /\ obs.input[3].dueDate < obs.input[2].dueDate
  /\ obs.output = << obs.input[3], obs.input[2], obs.input[1] >>

\* C13: on a displayed list of N >= 1 tasks the filter positions = ["last"]
\* resolves to one id, the id positions = [N] resolves to, which is the id of
\* the last task displayed; on an empty list both resolve to nothing.
C13_LastIsNth ==
  (/\ obs.op = "getFilteredTaskIds"
   /\ obs.positions = << Pos("last", 0, 0) >>
   /\ obs.fields = << >>) =>
    LET N == Len(tasks)
        nth == getFilteredTaskIds([positions |-> << Pos("num", N, 0) >>], tasks, moveCompleted, now, tz)
        completed == SelectSeq(tasks, LAMBDA x : x.completed)
        lastShown == IF moveCompleted /\ Len(completed) > 0
                     THEN completed[Len(completed)] ELSE tasks[N]
    IN /\ obs.ids = nth
       /\ N = 0 => obs.ids = << >>
       /\ N >= 1 => obs.ids = << lastShown.id >>

\* "last" resolved on a list of three tasks whose last displayed task is not
\* the last task of the collection.
C13_Witness ==
  /\ obs.op = "getFilteredTaskIds"
  /\ obs.positions = << Pos("last", 0, 0) >>
  /\ obs.fields = << >>
  /\ Len(tasks) = 3
  /\ Len(obs.ids) = 1
  /\ obs.ids[1] # tasks[3].id

\* C14: a filter that holds at least one position token together with
\* attribute fields (text, dueDate, status, priority or location) resolves to
\* exactly what its positions alone resolve to.
C14_PositionsWin ==
  (obs.op = "getFilteredTaskIds" /\ obs.fields # << >>) =>
    obs.ids = getFilteredTaskIds([positions |-> obs.positions], tasks, moveCompleted, now, tz)

\* "all" together with status "completed" on a list of three tasks, one of
\* them incomplete: the incomplete task is among the ids.
C14_Witness ==
  /\ obs.op = "getFilteredTaskIds"
  /\ obs.positions = << Pos("all", 0, 0) >>
  /\ obs.fields = [status |-> "completed"]
  /\ Len(tasks) = 3
  /\ Len(obs.ids) = 3
  /\ \E i \in 1..3 : ~tasks[i].completed
  /\ \E i \in 1..3 : tasks[i].completed

\* C15: position tokens are resolved against the displayed list: with
\* moveCompletedToBottom on, the number n denotes the n-th task of "the
\* incomplete tasks in the collection's order, then the completed tasks in the
\* collection's order", and with it off the n-th task of the collection.
C15_PositionsOnDisplayedList ==
  (/\ obs.op = "getFilteredTaskIds"
   /\ Len(obs.positions) = 1
   /\ obs.positions[1].k = "num"
   /\ obs.positions[1].a \in 1..Len(tasks)) =>
    LET n == obs.positions[1].a
        \* the tasks shown above the i-th task of the collection
        above(i) == {k \in 1..Len(tasks) :
                       IF moveCompleted
                       THEN \/ (tasks[k].completed = tasks[i].completed /\ k < i)
                            \/ (~tasks[k].completed /\ tasks[i].completed)
                       ELSE k < i}
        shown == CHOOSE i \in 1..Len(tasks) : Cardinality(above(i)) = n - 1
    IN obs.ids = << tasks[shown].id >>

\* Position 1 with moveCompletedToBottom on, on a list of three tasks whose
\* first task is completed: another task is resolved.
C15_Witness ==
  /\ obs.op = "getFilteredTaskIds"
  /\ obs.positions = << Pos("num", 1, 0) >>
  /\ moveCompleted
  /\ Len(tasks) = 3
  /\ tasks[1].completed
  /\ Len(obs.ids) = 1
  /\ obs.ids[1] # tasks[1].id

\* C16: a {start, end} position on a displayed list of N tasks resolves to the
\* tasks at the indices { i : 0 <= i < N and lo <= i <= hi }, a bound b standing
\* for N + b when b < 0 and for b - 1 otherwise; what lies outside the list is
\* dropped, so that {start: -k, end: -1} selects the final min(k, N) tasks.
C16_RangeClamped ==
  (/\ obs.op = "getFilteredTaskIds"
   /\ Len(obs.positions) = 1
   /\ obs.positions[1].k = "range") =>
    LET N == Len(tasks)
        shown == sortedTasks(tasks, moveCompleted)
        index(b) == IF b < 0 THEN N + b ELSE b - 1
        lo == index(obs.positions[1].a)
        hi == index(obs.positions[1].b)
        expected == {i \in 0..(N - 1) : lo <= i /\ i <= hi}
        k == 0 - obs.positions[1].a
        final == IF k < N THEN k ELSE N
    IN /\ Len(obs.ids) = Cardinality(expected)
       /\ Range(obs.ids) = {shown[i + 1].id : i \in expected}
       /\ (obs.positions[1].a < 0 /\ obs.positions[1].b = -1) =>
            obs.ids = [i \in 1..final |-> shown[N - final + i].id]

\* {start: -3, end: -1} on a list of two tasks: both are selected.
C16_Witness ==
  /\ obs.op = "getFilteredTaskIds"
  /\ obs.positions = << Pos("range", -3, -1) >>
  /\ Len(tasks) = 2
  /\ Len(obs.ids) = 2

\* C17: the ids a positional filter returns are pairwise distinct and follow
\* the displayed list (ascending display index), whatever the order and the
\* overlap of the position tokens.
C17_PositionsInDisplayOrder ==
  obs.op = "getFilteredTaskIds" =>
    LET shown == sortedTasks(tasks, moveCompleted)
        at(id) == CHOOSE k \in 1..Len(shown) : shown[k].id = id
    IN \A i, j \in 1..Len(obs.ids) :
         i < j => (obs.ids[i] # obs.ids[j] /\ at(obs.ids[i]) < at(obs.ids[j]))

\* C18: getFuzzyMatchingTaskIds prefers phrase matches: when the lowercased
\* text of at least one task contains the lowercased topic or is contained in
\* it, the result is exactly those tasks; and for the tasks "submit the
\* report" and "buy milk" with the topic "submitting the report" the first
\* task's id alone is returned, that task being a match by phrase containment.
C18_PhraseMatchesPreferred ==
  (obs.op = "getFuzzyMatchingTaskIds" /\ obs.topic # NoText) =>
    LET contains(a, b) == includes(toLowerCase(chars(a)), toLowerCase(chars(b)))
        phrase(task) == contains(task.text, obs.topic) \/ contains(obs.topic, task.text)
        phrases == SelectSeq(tasks, phrase)
    IN /\ Len(phrases) > 0 => obs.ids = [i \in 1..Len(phrases) |-> phrases[i].id]
       /\ (/\ Len(tasks) = 2
           /\ tasks[1].text = T_SubmitReport
           /\ toLowerCase(chars(tasks[2].text)) = toLowerCase(chars(T_BuyMilk))
           /\ obs.topic = T_Submitting) =>
            (obs.ids = << tasks[1].id >> /\ phrase(tasks[1]))

\* C19: an ADD_TASK descriptor without dueDate, priority and location whose
\* text matches (by phrase or fuzzily) at least one task that is incomplete
\* when the descriptor is interpreted creates no task and modifies none: it is
\* reported as a duplicate and not queued, and a command made of that
\* descriptor alone leaves the collection as it was.
C19_SimpleAddOfExistingTask ==
  obs.op = "handleRecordingComplete" =>
    \A i \in 1..Len(obs.log) :
      LET e == obs.log[i]
          action == obs.actions[e.n]
          taskInfo == action.tasks[1]
      IN (/\ e.intent = "ADD_TASK"
          /\ "tasks" \in DOMAIN action
          /\ Len(action.tasks) = 1
          /\ DOMAIN taskInfo = {"text"}
          /\ Len(getFuzzyMatchingTaskIds(Incomplete(e.at), taskInfo.text)) > 0)
         => /\ e.route = "duplicate"
            /\ ~e.changed
            /\ Len(obs.actions) = 1 => tasks = obs.before.tasks

\* C20: an ADD_TASK descriptor that carries at least one of dueDate, priority
\* and location and whose text matches at least one task that is incomplete
\* when the descriptor is interpreted creates no task; exactly one existing
\* task, the first match, is updated with the fields supplied (a due date as
\* far as it can be parsed), and the fields not supplied keep their values.
C20_DetailedAddUpdatesFirstMatch ==
  obs.op = "handleRecordingComplete" =>
    \A i \in 1..Len(obs.log) :
      LET e == obs.log[i]
          action == obs.actions[e.n]
          taskInfo == action.tasks[1]
          supplied == DOMAIN taskInfo \cap {"dueDate", "priority", "location"}
          matches == getFuzzyMatchingTaskIds(Incomplete(e.at), taskInfo.text)
          old(id) == Find(obs.before.tasks, id)
          new(id) == Find(tasks, id)
          due == parseDate(taskInfo.dueDate, now, tz)
          same(id, fields) == \A f \in fields : new(id)[f] = old(id)[f]
      IN (/\ e.intent = "ADD_TASK"
          /\ "tasks" \in DOMAIN action
          /\ Len(action.tasks) = 1
          /\ supplied # {}
          /\ Len(matches) > 0)
         => /\ e.route = "updated"
            /\ e.ids = << matches[1] >>
            /\ Len(obs.actions) = 1 =>
                 /\ Len(tasks) = Len(obs.before.tasks)
                 /\ Range(Ids(tasks)) = Range(Ids(obs.before.tasks))
                 /\ \A id \in Range(Ids(tasks)) \ {matches[1]} : new(id) = old(id)
                 /\ same(matches[1], {"id", "text", "completed", "createdAt"}
                                       \cup ({"dueDate", "priority", "location"} \ supplied))
                 /\ "priority" \in supplied => new(matches[1]).priority = taskInfo.priority
                 /\ "location" \in supplied => new(matches[1]).location = taskInfo.location
                 /\ "dueDate" \in supplied =>
                      new(matches[1]).dueDate = IF due = NoDate THEN old(matches[1]).dueDate ELSE due

\* C21: when the text contains an urgent keyword, detectPriorityFast returns
\* priority high with score exactly 90, whatever date, impact keyword,
\* location keyword or recurrence marker the text holds besides.
C21_UrgentShortCircuit ==
  (/\ obs.op = "detectPriorityFast"
   /\ \E k \in URGENT_KEYWORDS : includes(toLowerCase(obs.raw), k)) =>
    obs.result = [priority |-> "high", score |-> 90]

\* A text with an urgent keyword, an impact keyword, a location keyword, a
\* recurrence marker and a date within the hour.
C21_Witness ==
  /\ obs.op = "detectPriorityFast"
  /\ obs.result.score = 90
  /\ obs.parsed.found
  /\ obs.parsed.hrs2 = 1
  /\ includes(toLowerCase(obs.raw), <<"u", "r", "g", "e", "n", "t">>)
  /\ includes(toLowerCase(obs.raw), <<"t", "a", "x">>)
  /\ includes(toLowerCase(obs.raw), <<"s", "t", "o", "r", "e">>)
  /\ includes(toLowerCase(obs.raw), <<"e", "v", "e", "r", "y">>)

\* C22: without an urgent keyword the score of detectPriorityFast is
\* max(0, dateScore + 15 [impact keyword] + 10 [location keyword]
\* - 10 [recurrence marker]) with dateScore one of 0, 5, 15, 30, 40 (0 when no
\* date is found), and the priority is high for a score of 70 or more, medium
\* from 30, low from 5 and none below.
C22_ScoreAndBucket ==
  (/\ obs.op = "detectPriorityFast"
   /\ ~\E k \in URGENT_KEYWORDS : includes(toLowerCase(obs.raw), k)) =>
    LET text == toLowerCase(obs.raw)
        has(words) == \E k \in words : includes(text, k)
        rest == (IF has(IMPACT_KEYWORDS) THEN 15 ELSE 0)
                + (IF has(LOCATION_KEYWORDS) THEN 10 ELSE 0)
                - (IF has({<<"e", "v", "e", "r", "y">>, <<"d", "a", "i", "l", "y">>, <<"w", "e", "e", "k", "l", "y">>}) THEN 10 ELSE 0)
        score == obs.result.score
    IN /\ \E dateScore \in (IF obs.parsed.found THEN {5, 15, 30, 40} ELSE {0}) :
            score = (IF dateScore + rest < 0 THEN 0 ELSE dateScore + rest)
       /\ obs.result.priority = (IF score >= 70 THEN "high"
                                 ELSE IF score >= 30 THEN "medium"
                                 ELSE IF score >= 5 THEN "low" ELSE "none")

\* A text with a recurrence marker and nothing else: the sum is -10, the
\* score 0 and the priority none.
C22_Witness ==
  /\ obs.op = "detectPriorityFast"
  /\ ~obs.parsed.found
  /\ obs.raw = <<"e", "v", "e", "r", "y", " ", "c", "a", "l", "l", " ", "m", "o", "m">>
  /\ obs.result = [priority |-> "none", score |-> 0]

\* C23: a MARK_COMPLETED action that resolves to no task changes nothing; one
\* that resolves to exactly one task marks that task completed at once; one
\* that resolves to two or more tasks changes nothing and presents them for
\* selection, and the answer to the selection marks exactly the selected tasks
\* completed.
C23_CompleteOneOrSelect ==
  /\ obs.op = "handleRecordingComplete" =>
       \A i \in 1..Len(obs.log) :
         LET e == obs.log[i]
             alone == Len(obs.actions) = 1
         IN e.intent = "MARK_COMPLETED" =>
              CASE Len(e.ids) = 0 ->
                     /\ ~e.changed
                     /\ alone => tasks = obs.before.tasks
                [] Len(e.ids) = 1 ->
                     /\ e.route = "immediate"
                     /\ alone =>
                          tasks = [k \in 1..Len(obs.before.tasks) |->
                                   IF obs.before.tasks[k].id = e.ids[1]
                                   THEN [obs.before.tasks[k] EXCEPT !.completed = TRUE,
                                                                     !.lastUpdated = now]
                                   ELSE obs.before.tasks[k]]
                [] OTHER ->
                     /\ e.route = "select"
                     /\ ~e.changed
                     /\ alone => /\ tasks = obs.before.tasks
                                 /\ completionState.isOpen
                                 /\ Ids(completionState.tasks) = e.ids
  /\ obs.op = "handleCompleteTasks" =>
       LET selected == IF Len(obs.calls) = 0 THEN {} ELSE Range(obs.calls[1].ids)
       IN /\ ~completionState.isOpen
          /\ tasks = [k \in 1..Len(obs.before.tasks) |->
                        IF obs.before.tasks[k].id \in selected
                        THEN [obs.before.tasks[k] EXCEPT !.completed = TRUE, !.lastUpdated = now]
                        ELSE obs.before.tasks[k]]

\* Two of the tasks presented were selected and completed; a third task is
\* still incomplete.
C23_Witness ==
  /\ obs.op = "handleCompleteTasks"
  /\ Len(obs.calls) = 1
  /\ Len(obs.calls[1].ids) = 2
  /\ \A id \in Range(obs.calls[1].ids) : HasId(tasks, id) /\ Find(tasks, id).completed
  /\ \E k \in 1..Len(tasks) : ~tasks[k].completed
  /\ tasks # obs.before.tasks

\* C24: resolving a SHOW_TASKS filter twice with no store mutation in between
\* returns the identical ordered id list both times, and SHOW_TASKS changes
\* neither the task collection nor the undo slot.  Two SHOW_TASKS entries of
\* one list with the same filter and the same collection carry the same ids;
\* the ids an entry carries are those the filter resolves to on the
\* collection as it is stored when the action is interpreted, which is what
\* the next resolution before any mutation works on; and a list of SHOW_TASKS
\* actions leaves the store as it was.
C24_ShowTasksRepeatable ==
  obs.op = "handleRecordingComplete" =>
    LET shows == {i \in 1..Len(obs.log) : obs.log[i].intent = "SHOW_TASKS"}
        filterOf(i) == obs.actions[obs.log[i].n].filter
    IN /\ \A i \in shows : ~obs.log[i].changed
       /\ (\A n \in 1..Len(obs.actions) : obs.actions[n].intent = "SHOW_TASKS")
            => store = obs.before
       /\ \A i, j \in shows :
            (filterOf(i) = filterOf(j) /\ obs.log[i].at = obs.log[j].at)
              => obs.log[i].ids = obs.log[j].ids
       /\ \A i \in shows :
            obs.log[i].ids = getFilteredTaskIds(filterOf(i), obs.log[i].at, moveCompleted, now, tz)

\* C25: a QUERY_TASK_INFO action with queryType count reports the number of
\* tasks matched by the filter for every match count, zero included: each
\* such action of a command is answered with the count, and the count is the
\* number of tasks of the handler's collection the filter resolves to.
C25_CountReportedForEveryMatchCount ==
  obs.op = "handleRecordingComplete" =>
    \A n \in 1..Len(obs.actions) :
      LET action == obs.actions[n]
      IN (action.intent = "QUERY_TASK_INFO" /\ action.queryType = "count") =>
           \E i \in 1..Len(obs.log) :
             /\ obs.log[i].n = n
             /\ obs.log[i].route = "count"
             /\ Len(obs.log[i].ids) =
                  Len(getFilteredTaskIds(action.filter, obs.view, moveCompleted, now, tz))

\* C26: a QUERY_TASK_INFO action with a query type other than count (details,
\* deadline, priority) shows a task's information only when the filter
\* resolves to exactly one task; when it resolves to two or more tasks the
\* answer is the "be more specific" response and no task's details are shown.
C26_DetailsOnlyForSingleMatch ==
  obs.op = "handleRecordingComplete" =>
    \A i \in 1..Len(obs.log) :
      LET e == obs.log[i]
      IN (e.intent = "QUERY_TASK_INFO" /\ obs.actions[e.n].queryType # "count") =>
           /\ e.route = "details" => Len(e.ids) = 1
           /\ Len(e.ids) >= 2 => e.route = "ambiguous"

\* C27: an action whose filter matches zero tasks, or that lacks its required
\* payload, changes nothing in the store and does not stop the batch: every
\* action of a list that is interpreted (one with an action other than
\* UNKNOWN) is interpreted, in the order of the list; the entry of
\* an action that found nothing records no change of the collection; an
\* action whose filter resolves to no task of the handler's collection is
\* such an entry; and a list of which every action found nothing leaves the
\* collection and the undo slot as they were.
C27_NoMatchDoesNotStopBatch ==
  obs.op = "handleRecordingComplete" =>
    LET entries == 1..Len(obs.log)
        noMatch(e) == e.ids = << >> /\ e.route \in {"notify", "unknown"}
        byFilter == {"DELETE_TASK", "MARK_INCOMPLETE", "SHOW_TASKS", "QUERY_TASK_INFO"}
    IN /\ (\E n \in 1..Len(obs.actions) : obs.actions[n].intent # "UNKNOWN")
            => \A n \in 1..Len(obs.actions) : \E i \in entries : obs.log[i].n = n
       /\ \A i, j \in entries : i < j => obs.log[i].n <= obs.log[j].n
       /\ \A i \in entries : noMatch(obs.log[i]) => ~obs.log[i].changed
       /\ \A i \in entries :
            LET action == obs.actions[obs.log[i].n]
            IN (/\ action.intent \in byFilter
                /\ getFilteredTaskIds(action.filter, obs.view, moveCompleted, now, tz) = << >>)
                 => noMatch(obs.log[i])
       /\ (\A i \in entries : noMatch(obs.log[i])) => store = obs.before

\* C27, witness: the first action of a list found nothing (a filter without
\* a match, or an ADD_TASK without tasks) and the second changed the store.
C27_Witness ==
  /\ obs.op = "handleRecordingComplete"
  /\ Len(obs.log) = 2
  /\ obs.log[1].n = 1 /\ obs.log[1].ids = << >> /\ obs.log[1].route \in {"notify", "unknown"}
  /\ obs.log[2].n = 2 /\ obs.log[2].changed
  /\ tasks # obs.before.tasks

\* C28: while a confirmation or selection request raised by a command is
\* pending, no new recording is accepted and no action of a second command is
\* applied to the store: from a state with a dialog open, no step starts a
\* recording (the recorder stays idle), and no run of handleRecordingComplete
\* changes the collection or the undo slot.
C28_NoSecondCommandWhilePending ==
  [][~NoDialogOpen =>
       /\ phase = "idle" => phase' = "idle"
       /\ (phase = "processing" /\ phase' = "idle") => UNCHANGED << tasks, lastAction >>]_vars

\* C29: the undo slot holds at most one entry.  After two successive store
\* mutations A then B (B found A's entry in the slot and changed the
\* collection), revertLastAction undoes only B: the collection is the one
\* right after A, and the slot is empty, so that a revertLastAction called
\* again, like any revertLastAction on an empty slot, changes nothing.
C29_SingleUndoSlot ==
  /\ lastAction = NoUndo => revertLastAction(store, fresh) = store
  /\ (/\ obs.op = "handleUndo"
      /\ obs.last.fn # "none"
      /\ obs.lastPre.lastAction # NoUndo
      /\ Range(obs.before.tasks) # Range(obs.lastPre.tasks))
     => (Range(tasks) = Range(obs.lastPre.tasks) /\ lastAction = NoUndo)

\* C30: an undo entry recorded at time t stays available until t + 10 s unless
\* it is overwritten by a later mutation, consumed by revertLastAction or
\* dismissed; it is cleared once 10 s have elapsed; the expiry timer armed for
\* an earlier entry never clears an entry recorded later.  Where the handler
\* that ran last (at obs.time) recorded the entry in the slot: the clock is
\* not past obs.time + 10 s; clearLastAction runs on it only when 10 s have
\* elapsed since obs.time, whatever was recorded before it; and the slot
\* changes only by that expiry, by handleUndo, or by a later entry.
C30_UndoExpiry ==
  [][LET recorded == /\ lastAction # NoUndo
                     /\ obs.op # "clearLastAction"
                     /\ obs.before.lastAction # lastAction
     IN recorded =>
          /\ now <= obs.time + UNDO_EXPIRY
          /\ (obs' # obs /\ obs'.op = "clearLastAction") => now >= obs.time + UNDO_EXPIRY
          /\ lastAction' # lastAction =>
               \/ obs' # obs /\ obs'.op = "clearLastAction" /\ lastAction' = NoUndo
               \/ obs' # obs /\ obs'.op = "handleUndo" /\ lastAction' = NoUndo
               \/ obs' # obs /\ lastAction' # NoUndo]_vars

\* C30, witness: a task was toggled at the start, another one 5 s later, and
\* the entry of the second toggle has been cleared 10 s after it was
\* recorded, the timeout of the first entry having been due 5 s earlier.
C30_Witness ==
  /\ obs.op = "clearLastAction"
  /\ obs.last.fn = "toggleTask"
  /\ obs.lastPre.lastAction # NoUndo
  /\ obs.before.lastAction # NoUndo
  /\ lastAction = NoUndo
  /\ now = Now0 + UNDO_EXPIRY + (UNDO_EXPIRY \div 2)
  /\ \E i, j \in 1..Len(tasks) :
       tasks[i].lastUpdated = Now0 /\ tasks[j].lastUpdated = Now0 + (UNDO_EXPIRY \div 2)

\* C31: store operations that find nothing to do change nothing: updateTask,
\* toggleTask and deleteTask with an id absent from the collection,
\* completeTasks when none of the ids is present, deleteAllTasks on an empty
\* collection and deleteOverdueTasks when nothing is overdue leave the task
\* collection unchanged and the entry of the undo slot untouched.  obs.pre is
\* the store before the last store call of the handler that ran last.
C31_NothingToDoChangesNothing ==
  LET call == obs.calls[Len(obs.calls)]
      absent(id) == ~HasId(obs.pre.tasks, id)
      nothingToDo ==
        CASE call.fn \in {"updateTask", "toggleTask", "deleteTask"} ->
               call.kind = "string" /\ absent(call.ids[1])
          [] call.fn = "completeTasks" -> \A k \in 1..Len(call.ids) : absent(call.ids[k])
          [] call.fn = "deleteAllTasks" -> obs.pre.tasks = << >>
          [] call.fn = "deleteOverdueTasks" ->
               overdueTasks(Closure(obs.pre.tasks, sortOption), now, tz) = << >>
          [] OTHER -> FALSE
  IN (obs.op # "none" /\ Len(obs.calls) > 0 /\ nothingToDo) => store = obs.pre

\* C32: in every state reachable by store operations and reverts (add, update,
\* toggle, complete, delete, deleteOverdue, deleteAll, revertLastAction,
\* re-sort) no two tasks of the collection share an id; in particular the
\* revert of a delete or of a delete-many re-inserts no task that is present.
C32_UniqueIds ==
  \A i, j \in 1..Len(tasks) : tasks[i].id = tasks[j].id => i = j

\* C32, witness: handleUndo has reverted a delete or a delete-many and the
\* tasks it recorded are back in the collection.
C32_Witness ==
  /\ obs.op = "handleUndo"
  /\ obs.before.lastAction.type \in {"delete", "delete-many"}
  /\ Len(tasks) > Len(obs.before.tasks)
  /\ \A k \in 1..Len(obs.before.lastAction.tasks) : HasId(tasks, obs.before.lastAction.tasks[k].id)

\* C33: a command with an empty transcript, with an empty action list, with
\* only UNKNOWN actions, or whose transcription or intent service call fails
\* leaves the task collection and the undo slot exactly as they were and
\* creates no pending confirmation or selection request: the step in which
\* handleRecordingComplete ends on a list without an action other than
\* UNKNOWN (no list at all included) changes neither the store nor any of the
\* three requests.
C33_RejectedCommandChangesNothing ==
  [][(/\ phase = "processing"
      /\ phase' = "idle"
      /\ \A n \in 1..Len(obs'.actions) : obs'.actions[n].intent = "UNKNOWN")
     => UNCHANGED << tasks, lastAction, confirmationState, updateState, completionState >>]_vars

\* C33, witness: a command of UNKNOWN actions only has been handled while the
\* undo slot held an entry.
C33_Witness ==
  /\ obs.op = "handleRecordingComplete"
  /\ obs.actions = << [intent |-> "UNKNOWN"] >>
  /\ lastAction # NoUndo
  /\ store = obs.before
  /\ phase = "idle"

\* C34: when one action list holds two or more actions that each require a
\* confirmation or a selection, every one of them is surfaced as its own
\* pending request, none overwritten or dropped: after the handler, each
\* action that asked for a confirmation is the one confirmationState holds
\* (its intent and its ids), and each action that asked for a selection is
\* the one its dialog presents.
C34_EveryRequestSurfaced ==
  obs.op = "handleRecordingComplete" =>
    \A i \in 1..Len(obs.log) :
      LET e == obs.log[i]
      IN /\ e.route = "confirm" =>
              /\ confirmationState.isOpen
              /\ confirmationState.onConfirm = e.intent
              /\ confirmationState.ids = e.ids
         /\ (e.route = "select" /\ e.intent = "UPDATE_TASK") =>
              /\ updateState.isOpen
              /\ Range(Ids(updateState.tasks)) = Range(e.ids)
         /\ (e.route = "select" /\ e.intent = "MARK_COMPLETED") =>
              /\ completionState.isOpen
              /\ Range(Ids(completionState.tasks)) = Range(e.ids)

\* C35: dismissing a pending confirmation or selection request without
\* confirming leaves the task collection and the undo slot unchanged and
\* discards the deferred action, which can never run afterwards; confirming
\* runs the deferred action exactly once and then clears the pending request.
\* A dismissal makes no store call and leaves its request empty; no closed
\* confirmation keeps a deferred action; a confirmation makes the one store
\* call of its deferred action, a selection at most one, and both leave their
\* request empty.
C35_DismissDiscardsConfirmRunsOnce ==
  /\ obs.op \in {"handleCloseConfirmation", "closeUpdate", "closeCompletion"} =>
       (store = obs.before /\ obs.calls = << >>)
  /\ obs.op \in {"handleCloseConfirmation", "handleConfirm"} => confirmationState = NoConfirmation
  /\ obs.op \in {"closeUpdate", "handleUpdateTasks"} => updateState = NoSelection
  /\ obs.op \in {"closeCompletion", "handleCompleteTasks"} => completionState = NoSelection
  /\ ~confirmationState.isOpen => confirmationState.onConfirm = "null"
  /\ obs.op = "handleConfirm" => (Len(obs.calls) = 1 /\ obs.calls[1].fn # "none")
  /\ obs.op \in {"handleUpdateTasks", "handleCompleteTasks"} => Len(obs.calls) <= 1

\* C35, witness: a confirmation raised for all three tasks has been dismissed
\* while the undo slot held an entry; nothing was deleted.
C35_Witness ==
  /\ obs.op = "handleCloseConfirmation"
  /\ lastAction # NoUndo
  /\ Len(tasks) = 3
  /\ store = obs.before
  /\ confirmationState = NoConfirmation

\* C36: for a confirmed DELETE_OVERDUE the tasks removed are exactly the
\* tasks counted when the confirmation was raised (those with a dueDate before
\* today's start that are not completed): the number removed is the number
\* announced and no completed task is removed.  obs.view is the collection
\* the DELETE_OVERDUE action counted in.
C36_RemovedAreTheCounted ==
  (obs.op = "handleConfirm" /\ obs.calls[1].fn = "deleteOverdueTasks") =>
    LET counted == overdueCounted(obs.view, now, tz)
        removed == {x \in Range(obs.pre.tasks) : ~HasId(tasks, x.id)}
    IN /\ {x.id : x \in removed} = Range(Ids(counted))
       /\ obs.ret = Len(counted)
       /\ Cardinality(removed) = Len(counted)
       /\ \A x \in removed : ~x.completed

\* C37: after every store operation, toggleTask, completeTasks and every kind
\* of revertLastAction included, the task collection is ordered consistently
\* with the active sort option: for a task a placed before a task b the
\* active comparator does not rank b strictly before a.
C37_SortedAfterEveryOperation ==
  (obs.op # "none" /\ Len(obs.calls) > 0) =>
    \A i, j \in 1..Len(tasks) : i < j => compare(tasks[j], tasks[i], sortOption) >= 0

\* C38: for every text without an urgent keyword detectPriorityFast returns a
\* score from 0 to 65 and never the priority high; the priority high is
\* returned only together with the score 90.
C38_HighOnlyByUrgentKeyword ==
  obs.op = "detectPriorityFast" =>
    /\ (~\E k \in URGENT_KEYWORDS : includes(toLowerCase(obs.raw), k)) =>
         /\ obs.result.score \in 0..65
         /\ obs.result.priority # "high"
    /\ obs.result.priority = "high" => obs.result.score = 90

\* A text with an impact keyword, a location keyword, a date within four hours
\* and no urgent keyword: the highest score short of an urgent keyword.
C38_Witness ==
  /\ obs.op = "detectPriorityFast"
  /\ ~\E k \in URGENT_KEYWORDS : includes(toLowerCase(obs.raw), k)
  /\ obs.parsed.found
  /\ obs.parsed.hrs2 = 8
  /\ obs.result = [priority |-> "medium", score |-> 65]

\* C39: saving the task collection and loading it again yields the same
\* collection, the empty one included, and the seed tasks are used only when
\* the stored item is missing or corrupt.
C39_SaveLoadRoundTrip ==
  obs.op = "loadEffect" =>
    /\ (obs.stored.found /\ obs.stored.valid) =>
         (Len(obs.result) = Len(obs.saved) /\ Range(obs.result) = Range(obs.saved))
    /\ Range(obs.result) = Range(createMockTasks(now, tz, nextId)) =>
         (~obs.stored.found \/ ~obs.stored.valid)

\* C40: every invocation of handleRecordingComplete eventually resets the
\* processing flag, on each of its paths (empty transcript, command not
\* understood, normal completion, thrown upstream error), so that a new
\* recording is never blocked forever; while the flag is true startRecording
\* does nothing: no step taken while processing starts a recording or
\* replaces the stored onRecordingComplete.
C40_ProcessingFlagReset ==
  /\ (phase = "processing") ~> (phase = "idle")
  /\ [][phase = "processing" => (phase' # "recording" /\ handler' = handler)]_vars

\* C40, witness: a command that made store calls has been handled and the
\* flag is false again, with every counted step used.
C40_Witness ==
  /\ obs.op = "handleRecordingComplete"
  /\ Len(obs.calls) > 0
  /\ phase = "idle"
  /\ steps = MaxSteps

====
